---------------------------- MODULE Spec2Model ----------------------------
(***************************************************************************)
(* A model of the news research pipeline of 8_News_Research_Assistant:     *)
(* the structured response parser (agents/base_agent.py), the analysis,    *)
(* search and report agents, the fact-check agent's bounded worker pool    *)
(* (files/fact_check_agent.py) and the coordinator's research_topic        *)
(* (news_research_coordinator_light.py); and the workflows of the two git  *)
(* bots of github_activity_bot (git_merge_bot.py, git_push_bot.py).        *)
(*                                                                         *)
(* Python values are tagged records: a decoded JSON value is               *)
(*   [t |-> "dict", f |-> a function from keys to values],                 *)
(*   [t |-> "list", items |-> a sequence of values],                       *)
(*   [t |-> "str", s |-> a string], [t |-> "num", n |-> an integer],       *)
(*   [t |-> "bool", b |-> a Boolean] or [t |-> "none"].                    *)
(* The outcome of a Python call is Ret(v) or Raise(e).                     *)
(***************************************************************************)
EXTENDS Integers, Sequences, FiniteSets, TLC

VARIABLES
    p_pc,        \* parser harness: "start" | "done"
    p_text,      \* parser harness: the raw response text, a sequence of units
    p_default,   \* parser harness: the caller's default_value
    p_result     \* parser harness: what _parse_json_response did

parseVars == <<p_pc, p_text, p_default, p_result>>

VARIABLES
    v_pc,        \* FactCheckAgent.process: "idle" | "gathering" | "returned"
    v_articles,  \* its argument: the list of articles
    v_task,      \* per task of gather: "created" | "waiting" | "calling" | "done"
    v_sem,       \* the semaphore's value
    v_waiters,   \* tasks blocked in semaphore.acquire, first come first
    v_results,   \* what each finished process_article returned
    v_pbar,      \* the progress bar's count
    v_out,       \* the list process returned
    v_failed     \* per finished task: an exception arose while verifying

verifyVars ==
    <<v_pc, v_articles, v_task, v_sem, v_waiters, v_results, v_pbar, v_out, v_failed>>

VARIABLES
    c_pc,         \* research_topic: "idle" | "searching" | "analyzing" |
                  \*   "synthesizing" | "done" | "empty" | "failed"
    c_topic,      \* its argument topic
    c_time_range, \* its argument time_range
    c_trace,      \* the stages research_topic has entered, in order
    c_log,        \* the external calls issued so far, in order
    c_articles,   \* articles of research_topic
    c_files,      \* the number of report files written
    c_ret,        \* what research_topic returned
    s_pc,         \* SearchAgent.process: "idle" | "fetch" | "rank" | "returned"
    s_raw,        \* raw_articles of SearchAgent.process
    s_out,        \* what SearchAgent.process returned
    a_pc,         \* AnalysisAgent.process: "idle" | "article" | "overall" | "returned"
    a_idx,        \* the position of the loop over the articles
    a_results,    \* results of AnalysisAgent.process
    r_pc,         \* ReportAgent.process: "idle" | "summary" | "detailed" |
                  \*   "recommendations" | "returned"
    r_data,       \* its argument data
    r_report,     \* executive_summary, then report, of ReportAgent.process
    r_prompts     \* what the prompts of its LLM calls so far were built from

coordVars == <<c_pc, c_topic, c_time_range, c_trace, c_log, c_articles, c_files, c_ret>>
searchVars == <<s_pc, s_raw, s_out>>
analysisVars == <<a_pc, a_idx, a_results>>
reportVars == <<r_pc, r_data, r_report, r_prompts>>
pipeVars == <<coordVars, searchVars, analysisVars, reportVars>>

VARIABLES
    t_pc,        \* BaseAgent harness: "new" | "ready" | "called"
    t_role,      \* the role the agent was constructed with
    t_default,   \* self.temperature, in tenths
    t_given,     \* the temperature argument of _call_openai, in tenths, or None
    t_sent       \* the temperature of the request that was sent, in tenths

tempVars == <<t_pc, t_role, t_default, t_given, t_sent>>

VARIABLES
    m_pc,        \* execute_merge_workflow: "off" | "idle" | the next step | "returned" | "raised"
    m_args,      \* its arguments target_branch and cleanup_branch
    m_original,  \* original_branch
    m_branch,    \* the branch the repository has checked out
    m_log,       \* the steps run so far, each with its outcome
    m_ret        \* what execute_merge_workflow returned

mergeVars == <<m_pc, m_args, m_original, m_branch, m_log, m_ret>>

VARIABLES
    g_pc,        \* execute_git_workflow: "off" | "idle" | the next step | "returned"
    g_config,    \* create_branch_if_missing and pull_before_push of self.config
    g_log,       \* the steps run so far, each with its outcome
    g_ret        \* what execute_git_workflow returned

pushVars == <<g_pc, g_config, g_log, g_ret>>

toolVars == <<tempVars, mergeVars, pushVars>>

vars == <<parseVars, verifyVars, pipeVars, toolVars>>

---------------------------------------------------------------------------
(* Python values and call outcomes                                         *)

None == [t |-> "none"]
Str(s) == [t |-> "str", s |-> s]
Num(n) == [t |-> "num", n |-> n]
Bool(b) == [t |-> "bool", b |-> b]
List(items) == [t |-> "list", items |-> items]
Dict(f) == [t |-> "dict", f |-> f]
EmptyDict == Dict(<<>>)
EmptyList == List(<<>>)

Ret(v) == [raised |-> FALSE, val |-> v]
Raise(e) == [raised |-> TRUE, exc |-> e]

\* Python truthiness of a value (bool(v)).
Truthy(v) ==
    CASE v.t = "none" -> FALSE
      [] v.t = "str"  -> v.s # ""
      [] v.t = "num"  -> v.n # 0
      [] v.t = "bool" -> v.b
      [] v.t = "list" -> Len(v.items) > 0
      [] v.t = "dict" -> DOMAIN v.f # {}

---------------------------------------------------------------------------
(* Response text.  A text is a sequence of units; a unit [u |-> name] is a  *)
(* run of characters that the parser's regular expressions, strip() and    *)
(* json.loads treat as a whole:                                            *)
(*   "FENCE" a code fence (three backquotes)   "json"  the letters json    *)
(*   "\n"    whitespace                        "x"     prose, not JSON     *)
(*   "[" "," "]"  array syntax                 "1"     a number            *)
(*   "{}"    the text of a JSON object: the empty object, or with a field  *)
(*           obj the object that the text decodes to                       *)


Whitespace == {"\n"}

\* dict.get(k, dflt) and the type tests the agents use
Get(d, k, dflt) == IF k \in DOMAIN d.f THEN d.f[k] ELSE dflt
IsDict(v) == v.t = "dict"
IsList(v) == v.t = "list"

\* The JSON objects an LLM response of the model may hold, by the unit that
\* stands for their text.  A verification object follows the structure the
\* prompt of FactCheckAgent._verify_article asks for.
Claim1 == Dict([k \in {"claim"} |-> Str("c1")])
Claim2 == Dict([k \in {"claim"} |-> Str("c2")])
Scores(a, b, c) ==
    Dict([k \in {"source_credibility", "evidence_quality", "overall_reliability"} |->
            CASE k = "source_credibility" -> a
              [] k = "evidence_quality" -> b
              [] k = "overall_reliability" -> c])
VerificationObject(verified, unverified, cred, summary) ==
    Dict([k \in {"verified_claims", "unverified_claims", "credibility_assessment",
                 "verification_summary"} |->
            CASE k = "verified_claims" -> verified
              [] k = "unverified_claims" -> unverified
              [] k = "credibility_assessment" -> cred
              [] k = "verification_summary" -> summary])

\* T(<<"[", "1", "]">>) is the text of these units; Obj(v) is the text of
\* the JSON object v.
T(names) == [i \in DOMAIN names |-> [u |-> names[i]]]
Obj(v) == <<[u |-> "{}", obj |-> v]>>

\* The value an object unit decodes to.
ObjectValue(unit) == IF "obj" \in DOMAIN unit THEN unit.obj ELSE EmptyDict

\* re.sub(r'```json\s*', '', response): every fence directly followed by
\* json is removed together with the whitespace after it, in one pass from
\* the left.
RECURSIVE SkipWhitespace(_, _)
SkipWhitespace(s, i) ==
    IF i <= Len(s) /\ s[i].u \in Whitespace THEN SkipWhitespace(s, i + 1) ELSE i

RECURSIVE SubFenceJson(_, _)
SubFenceJson(s, i) ==
    IF i > Len(s) THEN <<>>
    ELSE IF s[i].u = "FENCE" /\ i + 1 <= Len(s) /\ s[i + 1].u = "json"
         THEN SubFenceJson(s, SkipWhitespace(s, i + 2))
         ELSE <<s[i]>> \o SubFenceJson(s, i + 1)

\* re.sub(r'```\s*$', '', response): a fence followed only by whitespace up
\* to the end of the text is removed with that whitespace.
AllWhitespaceFrom(s, i) == \A j \in i..Len(s) : s[j].u \in Whitespace

SubFenceAtEnd(s) ==
    LET hits == {i \in 1..Len(s) : s[i].u = "FENCE" /\ AllWhitespaceFrom(s, i + 1)}
    IN  IF hits = {} THEN s
        ELSE LET i == CHOOSE k \in hits : \A m \in hits : k <= m
             IN  SubSeq(s, 1, i - 1)

\* str.strip()
Strip(s) ==
    LET keep == {i \in 1..Len(s) : s[i].u \notin Whitespace}
    IN  IF keep = {} THEN <<>>
        ELSE LET lo == CHOOSE k \in keep : \A m \in keep : k <= m
                 hi == CHOOSE k \in keep : \A m \in keep : k >= m
             IN  SubSeq(s, lo, hi)

\* response.startswith('{') or response.startswith('[')
StartsWithBraceOrBracket(s) ==
    Len(s) > 0 /\ s[1].u \in {"{}", "["}

\* BaseAgent._clean_json_response
clean_json_response(response) ==
    LET stripped == Strip(SubFenceAtEnd(SubFenceJson(response, 1)))
    IN  IF ~StartsWithBraceOrBracket(stripped)
        THEN Raise("ValueError")
        ELSE Ret(stripped)

---------------------------------------------------------------------------
(* json.loads on a text of units: value ::= 1 | object | [ ] | [ v , v ]   *)
(* with whitespace allowed around every token and nothing after the value. *)
(* A decoder step returns [ok, val, next]: next is the first unread unit.  *)

DecFail == [ok |-> FALSE, val |-> None, next |-> 0]
DecOk(v, n) == [ok |-> TRUE, val |-> v, next |-> n]

RECURSIVE DecodeValue(_, _)
RECURSIVE DecodeElems(_, _, _)

\* after "[" or ",": an element, then "," or "]"
DecodeElems(s, i, acc) ==
    LET e == DecodeValue(s, SkipWhitespace(s, i))
    IN  IF ~e.ok THEN DecFail
        ELSE LET j == SkipWhitespace(s, e.next)
             IN  IF j > Len(s) THEN DecFail
                 ELSE IF s[j].u = "]" THEN DecOk(List(Append(acc, e.val)), j + 1)
                 ELSE IF s[j].u = "," THEN DecodeElems(s, j + 1, Append(acc, e.val))
                 ELSE DecFail

DecodeValue(s, i) ==
    IF i > Len(s) THEN DecFail
    ELSE IF s[i].u = "1" THEN DecOk(Num(1), i + 1)
    ELSE IF s[i].u = "{}" THEN DecOk(ObjectValue(s[i]), i + 1)
    ELSE IF s[i].u = "["
         THEN LET j == SkipWhitespace(s, i + 1)
              IN  IF j <= Len(s) /\ s[j].u = "]" THEN DecOk(EmptyList, j + 1)
                  ELSE DecodeElems(s, i + 1, <<>>)
    ELSE DecFail

json_loads(s) ==
    LET d == DecodeValue(s, SkipWhitespace(s, 1))
    IN  IF d.ok /\ SkipWhitespace(s, d.next) > Len(s)
        THEN Ret(d.val)
        ELSE Raise("JSONDecodeError")

\* A variant that tests the default's truth value (`if default_value:`)
\* where the code tests `is not None`.
parse_json_response_truthy(response, default_value) ==
    LET cleaned == clean_json_response(response)
        decoded == IF cleaned.raised THEN cleaned ELSE json_loads(cleaned.val)
    IN  IF ~decoded.raised THEN decoded
        ELSE IF Truthy(default_value) THEN Ret(default_value)
        ELSE decoded

\* BaseAgent._parse_json_response
parse_json_response(response, default_value) ==
    LET cleaned == clean_json_response(response)
        decoded == IF cleaned.raised THEN cleaned ELSE json_loads(cleaned.val)
    IN  IF ~decoded.raised THEN decoded
        ELSE IF default_value # None THEN Ret(default_value)
        ELSE decoded

---------------------------------------------------------------------------
(* The parser harness: one call of _parse_json_response on a response text *)
(* and a default drawn from bounded sets.                                  *)

MaxCore == 3

Units == {"FENCE", "json", "\n", "x", "[", "]", "{}"}
Prefixes ==
    {T(<<>>), T(<<"FENCE", "json", "\n">>), T(<<"FENCE", "json">>), T(<<"FENCE", "\n">>),
     T(<<"\n">>), T(<<"x">>)}
Suffixes ==
    {T(<<>>), T(<<"\n", "FENCE">>), T(<<"FENCE", "\n">>), T(<<"FENCE">>), T(<<"\n">>),
     T(<<"x">>)}
Cores == UNION {{T(names) : names \in [1..n -> Units]} : n \in 0..MaxCore}
Texts == {pre \o core \o suf : pre \in Prefixes, core \in Cores, suf \in Suffixes}

Defaults == {None, EmptyDict, Dict([k \in {"ranked_articles"} |-> EmptyList])}

NotCalled == [raised |-> FALSE, val |-> Str("<not called>")]

\* The harnesses of BaseAgent._call_openai and of the two git bots are off.
TempIdle ==
    /\ t_pc = "off"
    /\ t_role = None
    /\ t_default = None
    /\ t_given = None
    /\ t_sent = None
MergeIdle ==
    /\ m_pc = "off"
    /\ m_args = None
    /\ m_original = None
    /\ m_branch = None
    /\ m_log = <<>>
    /\ m_ret = None
PushIdle ==
    /\ g_pc = "off"
    /\ g_config = None
    /\ g_log = <<>>
    /\ g_ret = None
ToolIdle == TempIdle /\ MergeIdle /\ PushIdle

ParseIdle ==
    /\ p_pc = "idle"
    /\ p_text = <<>>
    /\ p_default = None
    /\ p_result = NotCalled

ParseCall ==
    /\ p_pc = "start"
    /\ p_result' = parse_json_response(p_text, p_default)
    /\ p_pc' = "done"
    /\ UNCHANGED <<p_text, p_default>>
    /\ UNCHANGED <<verifyVars, pipeVars, toolVars>>


---------------------------------------------------------------------------
(* SearchAgent (agents/search_agent.py)                                    *)

\* config.MAX_ARTICLES_PER_SEARCH
MAX_ARTICLES_PER_SEARCH == 10

\* seq[:n] of Python
Truncate_nothing(seq, n) == seq
Truncate(seq, n) == IF Len(seq) <= n THEN seq ELSE SubSeq(seq, 1, n)

\* An article as the provider returns it, with every field present.
ProviderArticle(u) ==
    Dict(("title" :> Str(u)) @@ ("description" :> Str("about")) @@ ("url" :> Str(u))
         @@ ("source" :> Dict("name" :> Str("Source"))) @@ ("publishedAt" :> Str("2025-05-18"))
         @@ ("content" :> Str("text")))

\* The processed_article that _fetch_articles builds of a provider article.
processed_article(article) ==
    Dict(("title" :> Get(article, "title", Str("")))
         @@ ("description" :> Get(article, "description", Str("")))
         @@ ("url" :> Get(article, "url", Str("")))
         @@ ("source" :> Dict("name" :> Get(Get(article, "source", EmptyDict), "name",
                                              Str("Unknown Source"))))
         @@ ("publishedAt" :> Get(article, "publishedAt", Str("")))
         @@ ("content" :> Get(article, "content", Str(""))))

ArticlePool ==
    [i \in 1..6 |-> processed_article(
        ProviderArticle(CASE i = 1 -> "u1" [] i = 2 -> "u2" [] i = 3 -> "u3"
                          [] i = 4 -> "u4" [] i = 5 -> "u5" [] i = 6 -> "u6"))]

\* SearchAgent._fetch_articles, given what news_api.get_everything did.
\* query always holds the key 'time_range' (research_topic puts it there),
\* so a time_range of None fails at query['time_range']['start'] before the
\* provider is asked; every exception is answered by [].
\* article.get(...) needs a dict, and so does .get('name', ...) on what
\* article.get('source', {}) gives.
fetch_articles(query, answer) ==
    IF query.time_range = None THEN <<>>
    ELSE IF answer.raised THEN <<>>
    ELSE IF \E i \in DOMAIN answer.val :
                ~IsDict(answer.val[i]) \/ ~IsDict(Get(answer.val[i], "source", EmptyDict))
         THEN <<>>
    ELSE [i \in DOMAIN answer.val |-> processed_article(answer.val[i])]

\* int(v) and the index test of _rank_articles
StrToInt(s) ==
    CASE s = "0" -> Ret(0) [] s = "1" -> Ret(1) [] s = "2" -> Ret(2)
      [] s = "5" -> Ret(5) [] s = "-1" -> Ret(0 - 1)
      [] OTHER -> Raise("ValueError")
ToInt(v) ==
    CASE v.t = "num"  -> Ret(v.n)
      [] v.t = "bool" -> Ret(IF v.b THEN 1 ELSE 0)
      [] v.t = "str"  -> StrToInt(v.s)
      [] OTHER        -> Raise("TypeError")

\* float(v) of Python: a number converts, a word such as "high" does not.
Float(v) ==
    CASE v.t = "num"  -> Ret(v)
      [] v.t = "bool" -> Ret(Num(IF v.b THEN 1 ELSE 0))
      [] v.t = "str"  -> Raise("ValueError")
      [] OTHER        -> Raise("TypeError")

\* articles[article_id] of Python: a negative index counts from the end.
Index(seq, i) ==
    IF 0 <= i /\ i < Len(seq) THEN Ret(seq[i + 1])
    ELSE IF i < 0 /\ 0 - i <= Len(seq) THEN Ret(seq[Len(seq) + i + 1])
    ELSE Raise("IndexError")

\* One turn of the loop over the ranked entries.  The result is
\* Ret(<<article>>) when an article was appended, Ret(<<>>) when the entry
\* was passed over (the id is not below len(articles), or the inner except
\* caught one of ValueError, KeyError, IndexError), and Raise(e) when an
\* exception leaves the loop.
Caught == {"ValueError", "KeyError", "IndexError"}
Guard(r) == IF r.raised /\ r.exc \in Caught THEN Ret(<<>>) ELSE r
resolve_ranked(articles, ranked) ==
    IF ~IsDict(ranked) THEN Raise("TypeError")
    ELSE IF "id" \notin DOMAIN ranked.f THEN Guard(Raise("KeyError"))
    ELSE
    LET article_id == ToInt(ranked.f["id"])
    IN  IF article_id.raised THEN Guard(article_id)
        ELSE IF ~(article_id.val < Len(articles)) THEN Ret(<<>>)
        ELSE
        LET article == Index(articles, article_id.val)
            score == Float(Get(ranked, "relevance_score", Num(0)))
        IN  IF article.raised THEN Guard(article)
            ELSE IF score.raised THEN Guard(score)
            ELSE Ret(<<Dict(("relevance_score" :> score.val)
                            @@ ("ranking_explanation" :> Get(ranked, "explanation", Str("")))
                            @@ article.val.f)>>)

RECURSIVE resolve_all(_, _, _, _)
resolve_all(articles, entries, i, acc) ==
    IF i > Len(entries) THEN Ret(acc)
    ELSE LET r == resolve_ranked(articles, entries[i])
         IN  IF r.raised THEN r
             ELSE resolve_all(articles, entries, i + 1, acc \o r.val)

\* A sort that puts an article before those of equal score.
RECURSIVE InsertByScore_before_ties(_, _)
InsertByScore_before_ties(sorted, a) ==
    IF sorted = <<>> THEN <<a>>
    ELSE IF Get(Head(sorted), "relevance_score", Num(0)).n > Get(a, "relevance_score", Num(0)).n
         THEN <<Head(sorted)>> \o InsertByScore_before_ties(Tail(sorted), a)
         ELSE <<a>> \o sorted

\* ranked_articles.sort(key=lambda x: x.get('relevance_score', 0),
\* reverse=True): by descending score, equal scores in their former order.
ScoreOf(article) == Get(article, "relevance_score", Num(0)).n
RECURSIVE InsertByScore(_, _)
InsertByScore(sorted, a) ==
    IF sorted = <<>> THEN <<a>>
    ELSE IF ScoreOf(Head(sorted)) >= ScoreOf(a)
         THEN <<Head(sorted)>> \o InsertByScore(Tail(sorted), a)
         ELSE <<a>> \o sorted
RECURSIVE SortByScore(_, _)
SortByScore(seq, acc) ==
    IF seq = <<>> THEN acc ELSE SortByScore(Tail(seq), InsertByScore(acc, Head(seq)))

\* A variant of _rank_articles without the fallback: what could be ranked
\* is returned, were it nothing.
rank_articles_no_fallback(articles, answer) ==
    IF answer.raised THEN <<>>
    ELSE
    LET parsed == parse_json_response(
                      answer.val, Dict("ranked_articles" :> EmptyList)).val
        entries == IF IsDict(parsed) THEN Get(parsed, "ranked_articles", EmptyList)
                   ELSE None
    IN  IF ~IsList(entries) THEN <<>>
        ELSE
        LET ranked_articles == resolve_all(articles, entries.items, 1, <<>>)
        IN  IF ranked_articles.raised THEN <<>>
            ELSE SortByScore(ranked_articles.val, <<>>)

\* A variant of _rank_articles whose outer except branch returns [].
rank_articles_except_empty(articles, answer) ==
    IF answer.raised THEN <<>>
    ELSE
    LET parsed == parse_json_response(
                      answer.val, Dict("ranked_articles" :> EmptyList)).val
        entries == IF IsDict(parsed) THEN Get(parsed, "ranked_articles", EmptyList)
                   ELSE None
    IN  IF ~IsList(entries) THEN <<>>
        ELSE
        LET ranked_articles == resolve_all(articles, entries.items, 1, <<>>)
        IN  IF ranked_articles.raised THEN <<>>
            ELSE IF ranked_articles.val = <<>>
                 THEN Truncate(articles, MAX_ARTICLES_PER_SEARCH)
            ELSE SortByScore(ranked_articles.val, <<>>)

\* SearchAgent._rank_articles for a non-empty list of articles, given what
\* _call_openai did.
rank_articles(articles, answer) ==
    LET fallback == Truncate(articles, MAX_ARTICLES_PER_SEARCH)
    IN  IF answer.raised THEN fallback
        ELSE
        LET parsed == parse_json_response(
                          answer.val, Dict("ranked_articles" :> EmptyList)).val
            entries == IF IsDict(parsed) THEN Get(parsed, "ranked_articles", EmptyList)
                       ELSE None
        IN  IF ~IsList(entries) THEN fallback
            ELSE
            LET ranked_articles == resolve_all(articles, entries.items, 1, <<>>)
            IN  IF ranked_articles.raised THEN fallback
                ELSE IF ranked_articles.val = <<>> THEN fallback
                ELSE SortByScore(ranked_articles.val, <<>>)

---------------------------------------------------------------------------
(* AnalysisAgent (agents/analysis_agent.py)                                *)

\* The results dict of AnalysisAgent.process, before any article.
EmptyResults ==
    [summaries |-> <<>>, key_points |-> <<>>, sentiment |-> <<>>, topics |-> <<>>,
     biases |-> <<>>]

\* The placeholders of the except branch of the loop.
FailedSentiment == Dict(("score" :> Num(0)) @@ ("explanation" :> Str("Analysis failed")))
FailedBias == Dict(("detected" :> Bool(FALSE)) @@ ("explanation" :> Str("Analysis failed")))

\* default_analysis of _analyze_article
default_analysis ==
    Dict(("summary" :> Str("Analysis failed"))
         @@ ("key_points" :> List(<<Str("Analysis failed")>>))
         @@ ("sentiment" :> FailedSentiment)
         @@ ("topics" :> List(<<Str("Unknown")>>))
         @@ ("bias" :> FailedBias))

\* AnalysisAgent._analyze_article, given what _call_openai did: an
\* exception of the call is raised again, a text is parsed with
\* default_analysis as the default.
analyze_article(answer) ==
    IF answer.raised THEN answer
    ELSE parse_json_response(answer.val, default_analysis)

\* analysis[key] for the value _analyze_article returned
Subscript(analysis, key) ==
    IF ~IsDict(analysis) THEN Raise("TypeError")
    ELSE IF key \notin DOMAIN analysis.f THEN Raise("KeyError")
    ELSE Ret(analysis.f[key])

\* list.extend(v): v must be iterable; the model's answers hold a list or
\* nothing under key_points and topics.
Extend(seq, v) == IF IsList(v) THEN Ret(seq \o v.items) ELSE Raise("TypeError")

\* An except branch that drops the article: nothing is appended.
append_nothing(results) == results

\* The except branch: a placeholder is appended to each of the five lists as
\* they stand.
append_placeholders(results) ==
    [summaries |-> Append(results.summaries, Str("Analysis failed")),
     key_points |-> Append(results.key_points, Str("Analysis failed")),
     sentiment |-> Append(results.sentiment, FailedSentiment),
     topics |-> Append(results.topics, Str("Unknown")),
     biases |-> Append(results.biases, FailedBias)]

\* One turn of the loop of AnalysisAgent.process: the five statements of the
\* try block run in order on what _analyze_article did, each keeping the
\* effect of those before it; the first that raises hands the lists, as they
\* then stand, to the except branch.
analyze_turn(results, analysis) ==
    IF analysis.raised THEN append_placeholders(results)
    ELSE
    LET a == analysis.val
        summary == Subscript(a, "summary")
        r1 == [results EXCEPT !.summaries = Append(@, summary.val)]
        key_points == Subscript(a, "key_points")
        kp == IF key_points.raised THEN key_points
              ELSE Extend(r1.key_points, key_points.val)
        r2 == [r1 EXCEPT !.key_points = kp.val]
        sentiment == Subscript(a, "sentiment")
        r3 == [r2 EXCEPT !.sentiment = Append(@, sentiment.val)]
        topics == Subscript(a, "topics")
        tp == IF topics.raised THEN topics ELSE Extend(r3.topics, topics.val)
        r4 == [r3 EXCEPT !.topics = tp.val]
        bias == Subscript(a, "bias")
        r5 == [r4 EXCEPT !.biases = Append(@, bias.val)]
    IN  IF summary.raised THEN append_placeholders(results)
        ELSE IF kp.raised THEN append_placeholders(r1)
        ELSE IF sentiment.raised THEN append_placeholders(r2)
        ELSE IF tp.raised THEN append_placeholders(r3)
        ELSE IF bias.raised THEN append_placeholders(r4)
        ELSE r5

\* AnalysisAgent._get_default_overall_analysis
get_default_overall_analysis ==
    Dict(("main_narrative" :> Str("Analysis failed"))
         @@ ("common_themes" :> EmptyList)
         @@ ("conflicting_viewpoints" :> EmptyList)
         @@ ("overall_sentiment" :> Str("neutral"))
         @@ ("potential_gaps" :> List(<<Str("Analysis failed to complete")>>)))

\* results['overall_analysis'] as process sets it, given what the
\* _call_openai of _perform_overall_analysis did.
overall_analysis(answer) ==
    IF answer.raised THEN get_default_overall_analysis
    ELSE parse_json_response(answer.val, get_default_overall_analysis).val

---------------------------------------------------------------------------
(* ReportAgent (agents/report_agent.py)                                    *)

ExecutiveSummary(main_findings) ==
    Dict(("main_findings" :> Str(main_findings)) @@ ("key_trends" :> EmptyList)
         @@ ("critical_insights" :> EmptyList) @@ ("reliability_assessment" :> Str("")))

\* ReportAgent._generate_executive_summary, given what _call_openai did:
\* the response goes to json.loads as it is.
generate_executive_summary(answer) ==
    IF answer.raised THEN ExecutiveSummary("Summary generation failed")
    ELSE LET decoded == json_loads(answer.val)
         IN  IF decoded.raised THEN ExecutiveSummary("") ELSE decoded.val

\* The dict _generate_detailed_analysis returns on a failure.
DefaultDetailedAnalysis ==
    Dict(("topic_analysis" :> EmptyDict) @@ ("source_analysis" :> EmptyDict)
         @@ ("narrative_analysis" :> EmptyDict) @@ ("fact_check_summary" :> EmptyDict))

\* The claims and scores _generate_detailed_analysis collects for its
\* prompt from data.get('fact_check_results', []).  Entries that are not
\* dicts are passed over; raised is set when a statement of the loop raises:
\* .get on a verification that is no dict, extend with what is no list,
\* float() of a score that is no number.
ScoreKeys == {"source_credibility", "evidence_quality", "overall_reliability"}
RECURSIVE collect_fact_checks(_, _, _)
collect_fact_checks(fact_check_results, i, acc) ==
    IF i > Len(fact_check_results) \/ acc.raised THEN acc
    ELSE
    LET result == fact_check_results[i]
        verification == Get(result, "verification_results", EmptyDict)
        verified == Get(verification, "verified_claims", EmptyList)
        unverified == Get(verification, "unverified_claims", EmptyList)
        cred == Get(verification, "credibility_assessment", EmptyDict)
        raises ==
            \/ ~IsDict(verification)
            \/ ~IsList(verified) \/ ~IsList(unverified)
            \/ IsDict(cred) /\ \E k \in ScoreKeys : Float(Get(cred, k, Num(0))).raised
        more == [verified_claims |-> acc.verified_claims \o verified.items,
                 unverified_claims |-> acc.unverified_claims \o unverified.items,
                 credibility_scores |->
                     IF IsDict(cred)
                     THEN Append(acc.credibility_scores,
                                 Dict([k \in ScoreKeys |-> Float(Get(cred, k, Num(0))).val]))
                     ELSE acc.credibility_scores,
                 raised |-> FALSE]
    IN  collect_fact_checks(fact_check_results, i + 1,
            IF ~IsDict(result) THEN acc
            ELSE IF raises THEN [acc EXCEPT !.raised = TRUE]
            ELSE more)

fact_check_input(data) ==
    collect_fact_checks(Get(data, "fact_check_results", EmptyList).items, 1,
        [verified_claims |-> <<>>, unverified_claims |-> <<>>, credibility_scores |-> <<>>,
         raised |-> FALSE])

\* ReportAgent._generate_detailed_analysis, given what _call_openai did: the
\* response goes to json.loads as it is.
generate_detailed_analysis(data, answer) ==
    IF fact_check_input(data).raised \/ answer.raised THEN DefaultDetailedAnalysis
    ELSE LET decoded == json_loads(answer.val)
         IN  IF decoded.raised THEN DefaultDetailedAnalysis ELSE decoded.val

\* A variant without the isinstance test: whatever decodes is returned.
generate_recommendations_any_json(answer) ==
    IF answer.raised THEN EmptyList
    ELSE LET decoded == json_loads(answer.val)
         IN  IF decoded.raised THEN EmptyList ELSE decoded.val

\* ReportAgent._generate_recommendations, given what _call_openai did.
generate_recommendations(answer) ==
    IF answer.raised THEN EmptyList
    ELSE LET decoded == json_loads(answer.val)
         IN  IF decoded.raised THEN EmptyList
             ELSE IF ~IsList(decoded.val) THEN EmptyList
             ELSE decoded.val

\* The report dict ReportAgent.process compiles before the recommendations.
compile_report(data, executive_summary, detailed_analysis) ==
    Dict(("executive_summary" :> executive_summary)
         @@ ("detailed_analysis" :> detailed_analysis)
         @@ ("metadata" :>
                Dict(("total_articles" :> Num(Len(Get(data, "articles", EmptyList).items)))
                     @@ ("analysis_timestamp" :> Get(data, "timestamp", Str("")))
                     @@ ("topic" :> Get(data, "topic", Str(""))))))

\* The dict ReportAgent.process returns from its except branch.
failed_report ==
    Dict(("executive_summary" :>
             Dict(("main_findings" :> Str("Report generation failed"))
                  @@ ("key_trends" :> EmptyList) @@ ("critical_insights" :> EmptyList)
                  @@ ("reliability_assessment" :> Str(""))))
         @@ ("detailed_analysis" :> EmptyDict) @@ ("metadata" :> EmptyDict)
         @@ ("recommendations" :> EmptyList))

\* What the three prompts of the report agent are built from: the values
\* that the f-string of each prompt formats in, by the label the prompt
\* gives them.
summary_prompt(data) ==
    LET analysis == Get(data, "analysis", EmptyDict)
    IN  ("Topic" :> Get(data, "topic", Str("")))
        @@ ("Number of Articles" :> Num(Len(Get(data, "articles", EmptyList).items)))
        @@ ("Overall Analysis" :> Get(analysis, "overall_analysis", EmptyDict))
        @@ ("Key Findings" :> Get(analysis, "key_points", EmptyList))
detailed_prompt(data) ==
    ("Analysis Results" :> Get(data, "analysis", EmptyDict))
    @@ ("Verified Claims" :> List(fact_check_input(data).verified_claims))
    @@ ("Unverified Claims" :> List(fact_check_input(data).unverified_claims))
    @@ ("Credibility Scores" :> List(fact_check_input(data).credibility_scores))
recommendations_prompt(report) ==
    ("Executive Summary" :> Get(report, "executive_summary", EmptyDict))
    @@ ("Detailed Analysis" :> Get(report, "detailed_analysis", EmptyDict))

\* report['recommendations'] = ...
with_recommendations(report, recommendations) ==
    Dict(("recommendations" :> recommendations) @@ report.f)

---------------------------------------------------------------------------
(* NewsResearchCoordinatorLight (news_research_coordinator_light.py)       *)

\* `for x in d.get(key, [])` (a list, a str and a dict can be iterated) and
\* `md_content += d.get(key, default)`
IterableAt(d, key) == Get(d, key, EmptyList).t \in {"list", "str", "dict"}
TextAt(d, key) == Get(d, key, Str("")).t = "str"

\* rec['priority'], rec['recommendation'], rec['rationale'] of one
\* recommendation
RecError(rec) ==
    IF ~IsDict(rec) THEN "TypeError"
    ELSE IF {"priority", "recommendation", "rationale"} \subseteq DOMAIN rec.f THEN "none"
    ELSE "KeyError"

\* NewsResearchCoordinatorLight._format_report_markdown: the markdown text,
\* or the first exception on the way through the report.
format_report_markdown(report) ==
    LET es == report.f["executive_summary"]
        detailed == Get(report, "detailed_analysis", EmptyDict)
        topic_analysis == Get(detailed, "topic_analysis", EmptyDict)
        source_analysis == Get(detailed, "source_analysis", EmptyDict)
        recs == Get(report, "recommendations", EmptyList)
        bad == {i \in 1..Len(recs.items) : RecError(recs.items[i]) # "none"}
    IN  IF ~IsDict(es) THEN Raise("TypeError")
        ELSE IF "main_findings" \notin DOMAIN es.f THEN Raise("KeyError")
        ELSE IF ~IterableAt(es, "key_trends") \/ ~IterableAt(es, "critical_insights")
                \/ ~TextAt(es, "reliability_assessment")
             THEN Raise("TypeError")
        ELSE IF ~IsDict(detailed) \/ ~IsDict(topic_analysis) THEN Raise("AttributeError")
        ELSE IF ~IterableAt(topic_analysis, "main_topics")
                \/ ~IterableAt(topic_analysis, "topic_relationships")
                \/ ~IterableAt(topic_analysis, "emerging_themes")
             THEN Raise("TypeError")
        ELSE IF ~IsDict(source_analysis) THEN Raise("AttributeError")
        ELSE IF ~IterableAt(source_analysis, "potential_biases") THEN Raise("TypeError")
        ELSE IF ~IsList(recs) THEN Raise("TypeError")
        ELSE IF bad # {}
             THEN Raise(RecError(recs.items[CHOOSE i \in bad : \A j \in bad : i <= j]))
        ELSE Ret(Str("# Research Report"))

\* str(e) inside a message
Fmt(template, e) == [t |-> "str", s |-> template, arg |-> e]

Now == Str("<now>")

\* The dict research_topic returns when search found nothing.
no_articles_report(topic) ==
    Dict(("error" :> Str("No articles found")) @@ ("topic" :> topic) @@ ("timestamp" :> Now)
         @@ ("executive_summary" :>
                Dict("main_findings" :> Str("No articles found for the given topic")))
         @@ ("detailed_analysis" :> EmptyDict) @@ ("recommendations" :> EmptyList))

\* The dict research_topic returns from its except branch.
error_report(topic, e) ==
    Dict(("error" :> Fmt("%s", e)) @@ ("topic" :> topic) @@ ("timestamp" :> Now)
         @@ ("executive_summary" :> Dict("main_findings" :> Fmt("Error occurred: %s", e)))
         @@ ("detailed_analysis" :> EmptyDict) @@ ("recommendations" :> EmptyList))

\* report_data of research_topic
report_data(topic, articles, analysis_results) ==
    Dict(("topic" :> topic) @@ ("timestamp" :> Now) @@ ("articles" :> List(articles))
         @@ ("analysis" :> analysis_results))

---------------------------------------------------------------------------
(* FactCheckAgent (files/fact_check_agent.py)                              *)

\* self.max_concurrent
max_concurrent == 3

\* FactCheckAgent._get_default_verification
get_default_verification ==
    VerificationObject(EmptyList, EmptyList, Scores(Num(0), Num(0), Num(0)),
                       Str("Verification failed"))

\* The LLM's answers to a verification request: the call fails, or returns
\* a text.
Fence(body) == T(<<"FENCE", "json", "\n">>) \o body \o T(<<"\n", "FENCE">>)
Prose == T(<<"x">>)
GoodVerification ==
    VerificationObject(List(<<Claim1>>), List(<<Claim2>>),
                       Scores(Num(1), Num(1), Num(0)), Str("checked"))
VerifyTexts ==
    {Obj(GoodVerification), Fence(Obj(GoodVerification)), Prose, T(<<"[", "]">>),
     Obj(VerificationObject(List(<<Claim1>>), EmptyList,
                            Scores(Str("high"), Str("high"), Str("low")), Str("checked"))),
     Obj(VerificationObject(EmptyList, List(<<Claim2>>),
                            Scores(Num(5), Num(1), Num(1)), Str("checked"))),
     Obj(Dict([k \in {"verification_summary"} |-> Str("checked")]))}
VerifyAnswers == {Raise("TransportError")} \cup {Ret(t) : t \in VerifyTexts}

\* FactCheckAgent._verify_article, given what _call_openai did: every
\* exception of the body is caught and answered by the default.
verify_article(answer) ==
    IF answer.raised THEN get_default_verification
    ELSE
    LET parsed == parse_json_response(answer.val, get_default_verification).val
    IN  IF ~IsDict(parsed) THEN get_default_verification   \* .get on a list
        ELSE
        LET verified == IF IsList(Get(parsed, "verified_claims", None))
                        THEN parsed.f["verified_claims"] ELSE EmptyList
            unverified == IF IsList(Get(parsed, "unverified_claims", None))
                          THEN parsed.f["unverified_claims"] ELSE EmptyList
            cred == Get(parsed, "credibility_assessment", None)
            sc == Float(Get(cred, "source_credibility", Num(0)))
            eq == Float(Get(cred, "evidence_quality", Num(0)))
            orl == Float(Get(cred, "overall_reliability", Num(0)))
            summary == Get(parsed, "verification_summary", Str(""))
        IN  IF IsDict(cred) /\ (sc.raised \/ eq.raised \/ orl.raised)
            THEN get_default_verification
            ELSE VerificationObject(
                    verified, unverified,
                    IF IsDict(cred) THEN Scores(sc.val, eq.val, orl.val)
                    ELSE Scores(Num(0), Num(0), Num(0)),
                    summary)

\* An exception arises while the article is verified: the call raises, the
\* text is rejected or does not decode, the decoded value is no dict (.get
\* fails), or float() fails on a score.
VerifyFails(answer) ==
    \/ answer.raised
    \/ LET cleaned == clean_json_response(answer.val)
           decoded == IF cleaned.raised THEN cleaned ELSE json_loads(cleaned.val)
           cred == Get(decoded.val, "credibility_assessment", None)
       IN  \/ decoded.raised
           \/ ~IsDict(decoded.val)
           \/ IsDict(cred) /\ \E k \in DOMAIN Scores(None, None, None).f :
                                 Float(Get(cred, k, Num(0))).raised

\* What process_article returns for an article.
ProcessArticleResult(article, verification) ==
    [article_url |-> Get(article, "url", Str("")), verification_results |-> verification,
     article_data |-> article]

Tasks == 1..Len(v_articles)
NoResult == [article_url |-> None, verification_results |-> None, article_data |-> None]

\* A variant of gather that returns at the first finished task
\* (asyncio.wait with FIRST_COMPLETED).
GatherDone_first == Tasks = {} \/ \E i \in Tasks : v_task[i] = "done"

\* asyncio.gather(*[...]): the results of the tasks in the order of its
\* arguments, once every task is done.
GatherDone == \A i \in Tasks : v_task[i] = "done"
GatherResult == [i \in Tasks |-> v_results[i]]

\* process is called: the semaphore is created and gather creates one task
\* per article.
VerifyStart ==
    /\ v_pc = "idle"
    /\ v_pc' = "gathering"
    /\ v_sem' = max_concurrent
    /\ v_task' = [i \in Tasks |-> "created"]
    /\ v_results' = [i \in Tasks |-> NoResult]
    /\ v_failed' = [i \in Tasks |-> FALSE]
    /\ UNCHANGED <<v_articles, v_waiters, v_pbar, v_out>>
    /\ UNCHANGED <<parseVars, pipeVars, toolVars>>

\* A variant of process_article without `async with semaphore`.
TaskStart_unlimited(i) ==
    /\ v_pc = "gathering"
    /\ v_task[i] = "created"
    /\ \A j \in Tasks : j < i => v_task[j] # "created"
    /\ v_sem' = v_sem - 1
    /\ v_task' = [v_task EXCEPT ![i] = "calling"]
    /\ UNCHANGED <<v_pc, v_articles, v_waiters, v_results, v_pbar, v_out, v_failed>>
    /\ UNCHANGED <<parseVars, pipeVars, toolVars>>

\* A task runs for the first time, tasks in the order gather created them:
\* `async with semaphore` takes a slot and the task goes on into
\* _verify_article up to its LLM call, or blocks when no slot is free.
TaskStart(i) ==
    /\ v_pc = "gathering"
    /\ v_task[i] = "created"
    /\ \A j \in Tasks : j < i => v_task[j] # "created"
    /\ IF v_sem > 0
       THEN /\ v_sem' = v_sem - 1
            /\ v_task' = [v_task EXCEPT ![i] = "calling"]
            /\ UNCHANGED v_waiters
       ELSE /\ v_task' = [v_task EXCEPT ![i] = "waiting"]
            /\ v_waiters' = Append(v_waiters, i)
            /\ UNCHANGED v_sem
    /\ UNCHANGED <<v_pc, v_articles, v_results, v_pbar, v_out, v_failed>>
    /\ UNCHANGED <<parseVars, pipeVars, toolVars>>

\* The first waiter is woken once a slot is free, takes it and goes on to
\* its LLM call.
TaskWake(i) ==
    /\ v_pc = "gathering"
    /\ v_waiters # <<>> /\ Head(v_waiters) = i
    /\ v_sem > 0
    /\ v_sem' = v_sem - 1
    /\ v_waiters' = Tail(v_waiters)
    /\ v_task' = [v_task EXCEPT ![i] = "calling"]
    /\ UNCHANGED <<v_pc, v_articles, v_results, v_pbar, v_out, v_failed>>
    /\ UNCHANGED <<parseVars, pipeVars, toolVars>>

\* A variant of process_article that releases the slot by hand at the end of
\* its try block and not in its except branch.
TaskFinish_leaks_on_failure(i, answer) ==
    /\ v_pc = "gathering"
    /\ v_task[i] = "calling"
    /\ v_results' = [v_results EXCEPT
                        ![i] = ProcessArticleResult(v_articles[i], verify_article(answer))]
    /\ v_pbar' = v_pbar + 1
    /\ v_sem' = IF answer.raised THEN v_sem ELSE v_sem + 1
    /\ v_task' = [v_task EXCEPT ![i] = "done"]
    /\ v_failed' = [v_failed EXCEPT ![i] = VerifyFails(answer)]
    /\ UNCHANGED <<v_pc, v_articles, v_waiters, v_out>>
    /\ UNCHANGED <<parseVars, pipeVars, toolVars>>

\* A variant of process without the handlers: the exception of one task
\* leaves gather, and the tasks still waiting for a slot are cancelled.
TaskFinish_cancels_siblings(i, answer) ==
    /\ v_pc = "gathering"
    /\ v_task[i] = "calling"
    /\ v_results' = [v_results EXCEPT
                        ![i] = ProcessArticleResult(v_articles[i], verify_article(answer))]
    /\ v_pbar' = v_pbar + 1
    /\ v_sem' = v_sem + 1
    /\ v_task' = [j \in Tasks |->
                     IF j = i \/ (VerifyFails(answer) /\ v_task[j] = "waiting")
                     THEN "done" ELSE v_task[j]]
    /\ v_waiters' = IF VerifyFails(answer) THEN <<>> ELSE v_waiters
    /\ v_failed' = [v_failed EXCEPT ![i] = VerifyFails(answer)]
    /\ UNCHANGED <<v_pc, v_articles, v_out>>
    /\ UNCHANGED <<parseVars, pipeVars, toolVars>>

\* A variant of process_article that acquires the semaphore by hand and
\* never releases it.
TaskFinish_keeps_slot(i, answer) ==
    /\ v_pc = "gathering"
    /\ v_task[i] = "calling"
    /\ v_results' = [v_results EXCEPT
                        ![i] = ProcessArticleResult(v_articles[i], verify_article(answer))]
    /\ v_pbar' = v_pbar + 1
    /\ v_task' = [v_task EXCEPT ![i] = "done"]
    /\ v_failed' = [v_failed EXCEPT ![i] = VerifyFails(answer)]
    /\ UNCHANGED <<v_pc, v_articles, v_waiters, v_out, v_sem>>
    /\ UNCHANGED <<parseVars, pipeVars, toolVars>>

\* The LLM call of task i ends with `answer`: _verify_article returns, the
\* progress bar advances, process_article returns its result and leaving the
\* `async with` block releases the slot.
TaskFinish(i, answer) ==
    /\ v_pc = "gathering"
    /\ v_task[i] = "calling"
    /\ v_results' = [v_results EXCEPT
                        ![i] = ProcessArticleResult(v_articles[i], verify_article(answer))]
    /\ v_pbar' = v_pbar + 1
    /\ v_sem' = v_sem + 1
    /\ v_task' = [v_task EXCEPT ![i] = "done"]
    /\ v_failed' = [v_failed EXCEPT ![i] = VerifyFails(answer)]
    /\ UNCHANGED <<v_pc, v_articles, v_waiters, v_out>>
    /\ UNCHANGED <<parseVars, pipeVars, toolVars>>

\* A variant of process that collects the results as the tasks complete
\* (asyncio.as_completed): the list may be in any order.
VerifyReturn_as_completed ==
    /\ v_pc = "gathering"
    /\ GatherDone
    /\ \E order \in [Tasks -> Tasks] :
          /\ \A i, j \in Tasks : i # j => order[i] # order[j]
          /\ v_out' = [i \in Tasks |-> v_results[order[i]]]
    /\ v_pc' = "returned"
    /\ UNCHANGED <<v_articles, v_task, v_sem, v_waiters, v_results, v_pbar, v_failed>>
    /\ UNCHANGED <<parseVars, pipeVars, toolVars>>

\* gather returns and process returns its list.
VerifyReturn ==
    /\ v_pc = "gathering"
    /\ GatherDone
    /\ v_out' = GatherResult
    /\ v_pc' = "returned"
    /\ UNCHANGED <<v_articles, v_task, v_sem, v_waiters, v_results, v_pbar, v_failed>>
    /\ UNCHANGED <<parseVars, pipeVars, toolVars>>

MaxArticles == 4
ArticleLists == {SubSeq(ArticlePool, 1, n) : n \in 0..MaxArticles}

VerifyIdle ==
    /\ v_pc = "off"
    /\ v_articles = <<>>
    /\ v_task = <<>>
    /\ v_sem = 0
    /\ v_waiters = <<>>
    /\ v_results = <<>>
    /\ v_pbar = 0
    /\ v_out = <<>>
    /\ v_failed = <<>>

---------------------------------------------------------------------------
(* research_topic, step by step.  A step runs from one await on an         *)
(* external call (the provider, the LLM, the file system) to the next.     *)

\* An entry of c_log: the call site, the position of the article it is about
\* (0 when it is about none) and what the call did.
Call(site, n, answer) == [site |-> site, n |-> n, answer |-> answer]
Query == [topic |-> c_topic, time_range |-> c_time_range]

\* results as the dict AnalysisAgent.process returns
results_dict(results) ==
    Dict(("summaries" :> List(results.summaries))
         @@ ("key_points" :> List(results.key_points))
         @@ ("sentiment" :> List(results.sentiment))
         @@ ("topics" :> List(results.topics))
         @@ ("biases" :> List(results.biases))
         @@ ("overall_analysis" :> results.overall_analysis))

\* What the model's LLM may answer at each call site.
Transport == Raise("TransportError")

RankEntry(id, score) ==
    Dict(("id" :> Num(id)) @@ ("relevance_score" :> Num(score))
         @@ ("explanation" :> Str("why")))
Ranking(entries) == Dict("ranked_articles" :> List(entries))
RankAnswers ==
    {Transport, Ret(Prose),
     Ret(Obj(Ranking(<<RankEntry(1, 1), RankEntry(0, 0)>>))),
     Ret(Obj(Ranking(<<RankEntry(2, 0), RankEntry(0, 1), RankEntry(5, 1), RankEntry(0, 1)>>))),
     Ret(Obj(Ranking(<<>>)))}

\* A complete analysis of an article; its summary names the article.
FullAnalysis(article) ==
    Dict(("summary" :> Get(article, "url", Str("")))
         @@ ("key_points" :> List(<<Get(article, "url", Str(""))>>))
         @@ ("sentiment" :> Dict(("score" :> Num(1)) @@ ("explanation" :> Str("positive"))))
         @@ ("topics" :> List(<<Str("topic")>>))
         @@ ("bias" :> Dict(("detected" :> Bool(TRUE)) @@ ("explanation" :> Str("slanted")))))
Without(d, keys) == Dict([k \in DOMAIN d.f \ keys |-> d.f[k]])
AnalysisAnswers(article) ==
    {Transport, Ret(Prose),
     Ret(Obj(FullAnalysis(article))),
     Ret(Obj(Without(FullAnalysis(article), {"key_points", "sentiment", "topics", "bias"})))}

GoodOverall ==
    Dict(("main_narrative" :> Str("narrative")) @@ ("common_themes" :> EmptyList)
         @@ ("conflicting_viewpoints" :> EmptyList) @@ ("overall_sentiment" :> Str("mixed"))
         @@ ("potential_gaps" :> EmptyList))
OverallAnswers == {Transport, Ret(Prose), Ret(Obj(GoodOverall))}

SummaryAnswers ==
    {Transport, Ret(Prose), Ret(Obj(ExecutiveSummary("findings"))),
     Ret(Obj(Dict("key_trends" :> EmptyList)))}

GoodDetailed ==
    Dict(("topic_analysis" :> Dict("main_topics" :> List(<<Str("topic")>>)))
         @@ ("source_analysis" :> Dict("source_distribution" :> Str("varied")))
         @@ ("narrative_analysis" :> EmptyDict) @@ ("fact_check_summary" :> EmptyDict))
DetailedAnswers ==
    {Transport, Ret(Prose), Ret(Obj(GoodDetailed)), Ret(T(<<"{}">>)), Ret(T(<<"[", "]">>))}

GoodRecommendation ==
    Dict(("recommendation" :> Str("do")) @@ ("rationale" :> Str("because"))
         @@ ("priority" :> Str("high")) @@ ("suggested_actions" :> EmptyList))
RecommendationAnswers ==
    {Transport, Ret(Obj(GoodRecommendation)),
     Ret(T(<<"[">>) \o Obj(GoodRecommendation) \o T(<<"]">>)),
     Ret(T(<<"[">>) \o Obj(Without(GoodRecommendation, {"priority"})) \o T(<<"]">>)),
     Ret(T(<<"[", "1", "]">>))}

MaxFetched == 2
FetchAnswers ==
    {Raise("NewsAPIException")}
        \cup {Ret([i \in 1..n |-> ProviderArticle(Get(ArticlePool[i], "url", None).s)]) :
                n \in 0..MaxFetched}

SaveAnswers == {Ret(Str("reports/topic_now.md")), Raise("OSError")}

\* Exceptions raised outside the calls above, by a statement of a process
\* method itself.
Uncaught == {"MemoryError"}

\* research_topic is called and awaits search_agent.process, which goes up
\* to the provider call of _fetch_articles.
Start ==
    /\ c_pc = "idle"
    /\ c_pc' = "searching"
    /\ c_trace' = Append(c_trace, "Searching")
    /\ s_pc' = "fetch"
    /\ UNCHANGED <<c_topic, c_time_range, c_log, c_articles, c_files, c_ret, s_raw, s_out>>
    /\ UNCHANGED <<analysisVars, reportVars, parseVars, verifyVars, toolVars>>

\* A variant of process without `if not raw_articles`: the ranking call is
\* made whatever was fetched.
SearchFetch_always_ranks(answer) ==
    /\ c_pc = "searching" /\ s_pc = "fetch"
    /\ s_raw' = fetch_articles(Query, answer)
    /\ s_pc' = "rank"
    /\ c_log' = IF c_time_range = None THEN c_log ELSE Append(c_log, Call("newsapi", 0, answer))
    /\ UNCHANGED <<c_pc, c_topic, c_time_range, c_trace, c_articles, c_files, c_ret, s_out>>
    /\ UNCHANGED <<analysisVars, reportVars, parseVars, verifyVars, toolVars>>

\* _fetch_articles ends: with nothing, and process returns []; or with the
\* raw articles, and _rank_articles goes up to its LLM call.
SearchFetch(answer) ==
    /\ c_pc = "searching" /\ s_pc = "fetch"
    /\ LET raw_articles == fetch_articles(Query, answer)
       IN  /\ s_raw' = raw_articles
           /\ IF raw_articles = <<>>
              THEN s_out' = <<>> /\ s_pc' = "returned"
              ELSE s_pc' = "rank" /\ UNCHANGED s_out
    /\ c_log' = IF c_time_range = None THEN c_log ELSE Append(c_log, Call("newsapi", 0, answer))
    /\ UNCHANGED <<c_pc, c_topic, c_time_range, c_trace, c_articles, c_files, c_ret>>
    /\ UNCHANGED <<analysisVars, reportVars, parseVars, verifyVars, toolVars>>

\* A ranking that writes the score and the explanation into the article of
\* the candidate list itself (articles[article_id] without .copy()).
SearchRank_in_place(answer) ==
    /\ c_pc = "searching" /\ s_pc = "rank"
    /\ LET out == rank_articles(s_raw, answer)
       IN  /\ s_out' = Truncate(out, MAX_ARTICLES_PER_SEARCH)
           /\ s_raw' = [i \in DOMAIN s_raw |->
                  LET hits == {p \in DOMAIN out :
                                 /\ "relevance_score" \in DOMAIN out[p].f
                                 /\ Dict([k \in DOMAIN s_raw[i].f |-> out[p].f[k]]) = s_raw[i]}
                  IN  IF hits = {} THEN s_raw[i] ELSE out[CHOOSE p \in hits : TRUE]]
    /\ s_pc' = "returned"
    /\ c_log' = Append(c_log, Call("rank", 0, answer))
    /\ UNCHANGED <<c_pc, c_topic, c_time_range, c_trace, c_articles, c_files, c_ret>>
    /\ UNCHANGED <<analysisVars, reportVars, parseVars, verifyVars, toolVars>>

\* The ranking call ends; _rank_articles returns and process returns its
\* first MAX_ARTICLES_PER_SEARCH articles.
SearchRank(answer) ==
    /\ c_pc = "searching" /\ s_pc = "rank"
    /\ s_out' = Truncate(rank_articles(s_raw, answer), MAX_ARTICLES_PER_SEARCH)
    /\ s_pc' = "returned"
    /\ c_log' = Append(c_log, Call("rank", 0, answer))
    /\ UNCHANGED <<c_pc, c_topic, c_time_range, c_trace, c_articles, c_files, c_ret, s_raw>>
    /\ UNCHANGED <<analysisVars, reportVars, parseVars, verifyVars, toolVars>>

\* research_topic without `if not articles`: analysis is awaited whatever the
\* search returned.
AfterSearch_no_empty_check ==
    /\ c_pc = "searching" /\ s_pc = "returned"
    /\ c_articles' = s_out
    /\ c_pc' = "analyzing"
    /\ c_trace' = Append(c_trace, "Analyzing")
    /\ a_pc' = IF s_out = <<>> THEN "overall" ELSE "article"
    /\ a_idx' = 1
    /\ a_results' = EmptyResults
    /\ UNCHANGED <<c_ret, c_topic, c_time_range, c_log, c_files>>
    /\ UNCHANGED <<searchVars, reportVars, parseVars, verifyVars, toolVars>>

\* research_topic without the await on search_agent.process: it goes on with
\* the articles the search holds at that moment.
AfterSearch_no_await ==
    /\ c_pc = "searching" /\ s_pc \in {"rank", "returned"}
    /\ c_articles' = IF s_pc = "returned" THEN s_out ELSE s_raw
    /\ IF c_articles' = <<>>
       THEN /\ c_pc' = "empty"
            /\ c_ret' = no_articles_report(c_topic)
            /\ UNCHANGED <<c_trace, analysisVars>>
       ELSE /\ c_pc' = "analyzing"
            /\ c_trace' = Append(c_trace, "Analyzing")
            /\ a_pc' = "article"
            /\ a_idx' = 1
            /\ a_results' = EmptyResults
            /\ UNCHANGED c_ret
    /\ UNCHANGED <<c_topic, c_time_range, c_log, c_files>>
    /\ UNCHANGED <<searchVars, reportVars, parseVars, verifyVars, toolVars>>

\* A variant of research_topic that also writes the "No articles found"
\* report to a file.
AfterSearch_saves_empty ==
    /\ c_pc = "searching" /\ s_pc = "returned"
    /\ c_articles' = s_out
    /\ IF s_out = <<>>
       THEN /\ c_pc' = "empty"
            /\ c_ret' = no_articles_report(c_topic)
            /\ c_files' = c_files + 1
            /\ UNCHANGED <<c_trace, analysisVars>>
       ELSE /\ c_pc' = "analyzing"
            /\ c_trace' = Append(c_trace, "Analyzing")
            /\ a_pc' = "article"
            /\ a_idx' = 1
            /\ a_results' = EmptyResults
            /\ UNCHANGED <<c_ret, c_files>>
    /\ UNCHANGED <<c_topic, c_time_range, c_log>>
    /\ UNCHANGED <<searchVars, reportVars, parseVars, verifyVars, toolVars>>

\* research_topic has the articles: it returns at once when there are none,
\* and awaits analysis_agent.process otherwise.
AfterSearch ==
    /\ c_pc = "searching" /\ s_pc = "returned"
    /\ c_articles' = s_out
    /\ IF s_out = <<>>
       THEN /\ c_pc' = "empty"
            /\ c_ret' = no_articles_report(c_topic)
            /\ UNCHANGED <<c_trace, analysisVars>>
       ELSE /\ c_pc' = "analyzing"
            /\ c_trace' = Append(c_trace, "Analyzing")
            /\ a_pc' = "article"
            /\ a_idx' = 1
            /\ a_results' = EmptyResults
            /\ UNCHANGED c_ret
    /\ UNCHANGED <<c_topic, c_time_range, c_log, c_files>>
    /\ UNCHANGED <<searchVars, reportVars, parseVars, verifyVars, toolVars>>

\* A loop that asks again for an article whose call failed.
AnalyzeArticle_retries ==
    /\ c_pc = "analyzing" /\ a_pc = "article"
    /\ \E answer \in AnalysisAnswers(c_articles[a_idx]) :
          /\ a_results' = IF answer.raised THEN a_results
                          ELSE analyze_turn(a_results, analyze_article(answer))
          /\ c_log' = Append(c_log, Call("analysis", a_idx, answer))
          /\ a_idx' = IF answer.raised THEN a_idx ELSE a_idx + 1
          /\ a_pc' = IF a_idx = Len(c_articles) /\ ~answer.raised THEN "overall" ELSE "article"
    /\ UNCHANGED <<c_pc, c_topic, c_time_range, c_trace, c_articles, c_files, c_ret>>
    /\ UNCHANGED <<searchVars, reportVars, parseVars, verifyVars, toolVars>>

\* The analysis call for the article at a_idx ends and the loop moves on;
\* after the last article process goes up to the overall call.
AnalyzeArticle ==
    /\ c_pc = "analyzing" /\ a_pc = "article"
    /\ \E answer \in AnalysisAnswers(c_articles[a_idx]) :
          /\ a_results' = analyze_turn(a_results, analyze_article(answer))
          /\ c_log' = Append(c_log, Call("analysis", a_idx, answer))
    /\ a_idx' = a_idx + 1
    /\ a_pc' = IF a_idx = Len(c_articles) THEN "overall" ELSE "article"
    /\ UNCHANGED <<c_pc, c_topic, c_time_range, c_trace, c_articles, c_files, c_ret>>
    /\ UNCHANGED <<searchVars, reportVars, parseVars, verifyVars, toolVars>>

\* process without the try around the overall analysis: a failed call
\* leaves process, and research_topic answers it.
AnalyzeOverall_propagates(answer) ==
    /\ c_pc = "analyzing" /\ a_pc = "overall"
    /\ c_log' = Append(c_log, Call("overall", 0, answer))
    /\ IF answer.raised
       THEN /\ c_pc' = "failed"
            /\ c_ret' = error_report(c_topic, answer.exc)
            /\ UNCHANGED <<a_results, a_pc>>
       ELSE /\ a_results' = [k \in DOMAIN a_results \cup {"overall_analysis"} |->
                               IF k = "overall_analysis" THEN overall_analysis(answer)
                               ELSE a_results[k]]
            /\ a_pc' = "returned"
            /\ UNCHANGED <<c_pc, c_ret>>
    /\ UNCHANGED <<a_idx, c_topic, c_time_range, c_trace, c_articles, c_files>>
    /\ UNCHANGED <<searchVars, reportVars, parseVars, verifyVars, toolVars>>

\* The overall call ends and process returns results.
AnalyzeOverall(answer) ==
    /\ c_pc = "analyzing" /\ a_pc = "overall"
    /\ a_results' = [k \in DOMAIN a_results \cup {"overall_analysis"} |->
                        IF k = "overall_analysis" THEN overall_analysis(answer)
                        ELSE a_results[k]]
    /\ a_pc' = "returned"
    /\ c_log' = Append(c_log, Call("overall", 0, answer))
    /\ UNCHANGED <<a_idx, c_pc, c_topic, c_time_range, c_trace, c_articles, c_files, c_ret>>
    /\ UNCHANGED <<searchVars, reportVars, parseVars, verifyVars, toolVars>>

\* research_topic has the analysis: it builds report_data and awaits
\* report_agent.process, which goes up to the executive summary call.
AfterAnalysis ==
    /\ c_pc = "analyzing" /\ a_pc = "returned"
    /\ c_pc' = "synthesizing"
    /\ c_trace' = Append(c_trace, "Synthesizing")
    /\ r_data' = report_data(c_topic, c_articles, results_dict(a_results))
    /\ r_pc' = "summary"
    /\ r_prompts' = <<summary_prompt(report_data(c_topic, c_articles, results_dict(a_results)))>>
    /\ UNCHANGED <<r_report, c_topic, c_time_range, c_log, c_articles, c_files, c_ret>>
    /\ UNCHANGED <<searchVars, analysisVars, parseVars, verifyVars, toolVars>>

\* A process whose executive summary step does not catch its own errors: a
\* failed call or an undecodable text reaches the except branch of process.
ReportSummary_aborts(answer) ==
    /\ c_pc = "synthesizing" /\ r_pc = "summary"
    /\ IF answer.raised \/ json_loads(answer.val).raised
       THEN r_report' = failed_report /\ r_pc' = "returned" /\ UNCHANGED r_prompts
       ELSE /\ r_report' = generate_executive_summary(answer)
            /\ r_pc' = "detailed"
            /\ r_prompts' = Append(r_prompts, detailed_prompt(r_data))
    /\ c_log' = Append(c_log, Call("summary", 0, answer))
    /\ UNCHANGED <<r_data, c_pc, c_topic, c_time_range, c_trace, c_articles, c_files, c_ret>>
    /\ UNCHANGED <<searchVars, analysisVars, parseVars, verifyVars, toolVars>>

\* The executive summary call ends.
ReportSummary(answer) ==
    /\ c_pc = "synthesizing" /\ r_pc = "summary"
    /\ r_report' = generate_executive_summary(answer)
    /\ r_pc' = "detailed"
    /\ r_prompts' = Append(r_prompts, detailed_prompt(r_data))
    /\ c_log' = Append(c_log, Call("summary", 0, answer))
    /\ UNCHANGED <<r_data, c_pc, c_topic, c_time_range, c_trace, c_articles, c_files, c_ret>>
    /\ UNCHANGED <<searchVars, analysisVars, parseVars, verifyVars, toolVars>>

\* A process that passes data where _generate_recommendations takes the
\* report: the prompt is built from data.get('executive_summary', {}) and
\* data.get('detailed_analysis', {}).
ReportDetailed_prompt_from_data(answer) ==
    /\ c_pc = "synthesizing" /\ r_pc = "detailed"
    /\ r_report' = compile_report(r_data, r_report, generate_detailed_analysis(r_data, answer))
    /\ r_pc' = "recommendations"
    /\ r_prompts' = Append(r_prompts, recommendations_prompt(r_data))
    /\ c_log' = Append(c_log, Call("detailed", 0, answer))
    /\ UNCHANGED <<r_data, c_pc, c_topic, c_time_range, c_trace, c_articles, c_files, c_ret>>
    /\ UNCHANGED <<searchVars, analysisVars, parseVars, verifyVars, toolVars>>

\* The detailed analysis call ends and the report is compiled.
ReportDetailed(answer) ==
    /\ c_pc = "synthesizing" /\ r_pc = "detailed"
    /\ r_report' = compile_report(r_data, r_report, generate_detailed_analysis(r_data, answer))
    /\ r_pc' = "recommendations"
    /\ r_prompts' = Append(r_prompts, recommendations_prompt(
                        compile_report(r_data, r_report, generate_detailed_analysis(r_data, answer))))
    /\ c_log' = Append(c_log, Call("detailed", 0, answer))
    /\ UNCHANGED <<r_data, c_pc, c_topic, c_time_range, c_trace, c_articles, c_files, c_ret>>
    /\ UNCHANGED <<searchVars, analysisVars, parseVars, verifyVars, toolVars>>

\* The recommendations call ends and process returns the report.
ReportRecommendations(answer) ==
    /\ c_pc = "synthesizing" /\ r_pc = "recommendations"
    /\ r_report' = with_recommendations(r_report, generate_recommendations(answer))
    /\ r_pc' = "returned"
    /\ c_log' = Append(c_log, Call("recommendations", 0, answer))
    /\ UNCHANGED <<r_data, r_prompts, c_pc, c_topic, c_time_range, c_trace, c_articles, c_files, c_ret>>
    /\ UNCHANGED <<searchVars, analysisVars, parseVars, verifyVars, toolVars>>

\* research_topic with formatting and saving after its try block: their
\* exceptions leave research_topic.
FormatAndSave_outside_try(answer) ==
    /\ c_pc = "synthesizing" /\ r_pc = "returned"
    /\ LET md_content == format_report_markdown(r_report)
       IN  IF md_content.raised
           THEN /\ c_pc' = "raised"
                /\ UNCHANGED <<c_ret, c_files, c_log>>
           ELSE /\ c_log' = Append(c_log, Call("save", 0, answer))
                /\ IF answer.raised
                   THEN /\ c_pc' = "raised"
                        /\ UNCHANGED <<c_ret, c_files>>
                   ELSE /\ c_pc' = "done"
                        /\ c_ret' = r_report
                        /\ c_files' = c_files + 1
    /\ UNCHANGED <<c_topic, c_time_range, c_trace, c_articles>>
    /\ UNCHANGED <<searchVars, analysisVars, reportVars, parseVars, verifyVars, toolVars>>

\* research_topic has the final report: it formats it, saves the markdown
\* (the file system answers) and returns the report; an exception of either
\* step is answered by the except branch.
FormatAndSave(answer) ==
    /\ c_pc = "synthesizing" /\ r_pc = "returned"
    /\ LET md_content == format_report_markdown(r_report)
       IN  IF md_content.raised
           THEN /\ c_pc' = "failed"
                /\ c_ret' = error_report(c_topic, md_content.exc)
                /\ UNCHANGED <<c_files, c_log>>
           ELSE /\ c_log' = Append(c_log, Call("save", 0, answer))
                /\ IF answer.raised
                   THEN /\ c_pc' = "failed"
                        /\ c_ret' = error_report(c_topic, answer.exc)
                        /\ UNCHANGED c_files
                   ELSE /\ c_pc' = "done"
                        /\ c_ret' = r_report
                        /\ c_files' = c_files + 1
    /\ UNCHANGED <<c_topic, c_time_range, c_trace, c_articles>>
    /\ UNCHANGED <<searchVars, analysisVars, reportVars, parseVars, verifyVars, toolVars>>

\* A statement of SearchAgent.process itself raises (_fetch_articles and
\* _rank_articles catch their own exceptions, process has no try): the
\* except branch of research_topic answers it.
SearchRaises(e) ==
    /\ c_pc = "searching" /\ s_pc \in {"fetch", "rank"}
    /\ c_pc' = "failed"
    /\ c_ret' = error_report(c_topic, e)
    /\ c_log' = Append(c_log, Call("search", 0, Raise(e)))
    /\ UNCHANGED <<c_topic, c_time_range, c_trace, c_articles, c_files>>
    /\ UNCHANGED <<searchVars, analysisVars, reportVars, parseVars, verifyVars, toolVars>>

\* A statement of AnalysisAgent.process outside its try blocks raises (the
\* progress bar, an append of the placeholders): nothing in process catches
\* it, and the except branch of research_topic answers it.
AnalysisRaises(e) ==
    /\ c_pc = "analyzing" /\ a_pc \in {"article", "overall"}
    /\ c_pc' = "failed"
    /\ c_ret' = error_report(c_topic, e)
    /\ c_log' = Append(c_log, Call("analyze", 0, Raise(e)))
    /\ UNCHANGED <<c_topic, c_time_range, c_trace, c_articles, c_files>>
    /\ UNCHANGED <<searchVars, analysisVars, reportVars, parseVars, verifyVars, toolVars>>

\* A process without its try: the exception of one of its statements
\* reaches research_topic.
ReportRaises_propagates(e) ==
    /\ c_pc = "synthesizing" /\ r_pc \in {"summary", "detailed", "recommendations"}
    /\ c_pc' = "failed"
    /\ c_ret' = error_report(c_topic, e)
    /\ c_log' = Append(c_log, Call("report", 0, Raise(e)))
    /\ UNCHANGED <<c_topic, c_time_range, c_trace, c_articles, c_files>>
    /\ UNCHANGED <<searchVars, analysisVars, reportVars, parseVars, verifyVars, toolVars>>

\* A statement of ReportAgent.process raises: its except branch returns the
\* failed report.
ReportRaises(e) ==
    /\ c_pc = "synthesizing" /\ r_pc \in {"summary", "detailed", "recommendations"}
    /\ r_report' = failed_report
    /\ r_pc' = "returned"
    /\ c_log' = Append(c_log, Call("report", 0, Raise(e)))
    /\ UNCHANGED <<r_data, r_prompts, c_pc, c_topic, c_time_range, c_trace, c_articles, c_files, c_ret>>
    /\ UNCHANGED <<searchVars, analysisVars, parseVars, verifyVars, toolVars>>

PipeIdle ==
    /\ c_pc = "off"
    /\ c_topic = None
    /\ c_time_range = None
    /\ c_trace = <<>>
    /\ c_log = <<>>
    /\ c_articles = <<>>
    /\ c_files = 0
    /\ c_ret = None
    /\ s_pc = "idle"
    /\ s_raw = <<>>
    /\ s_out = <<>>
    /\ a_pc = "idle"
    /\ a_idx = 0
    /\ a_results = EmptyResults
    /\ r_pc = "idle"
    /\ r_data = None
    /\ r_report = None
    /\ r_prompts = <<>>

TimeRange == Dict(("start" :> Str("2025-05-17")) @@ ("end" :> Str("2025-05-19")))

---------------------------------------------------------------------------
(* Specifications                                                          *)

Init ==
    /\ ParseIdle
    /\ ToolIdle
    /\ VerifyIdle
    /\ c_pc = "idle"
    /\ c_topic = Str("Artificial Intelligence Ethics")
    /\ c_time_range \in {None, TimeRange}
    /\ c_trace = <<>>
    /\ c_log = <<>>
    /\ c_articles = <<>>
    /\ c_files = 0
    /\ c_ret = None
    /\ s_pc = "idle"
    /\ s_raw = <<>>
    /\ s_out = <<>>
    /\ a_pc = "idle"
    /\ a_idx = 0
    /\ a_results = EmptyResults
    /\ r_pc = "idle"
    /\ r_data = None
    /\ r_report = None
    /\ r_prompts = <<>>

Next ==
    \/ Start
    \/ \E answer \in FetchAnswers : SearchFetch(answer)
    \/ \E answer \in RankAnswers : SearchRank(answer)
    \/ AfterSearch
    \/ AnalyzeArticle
    \/ \E answer \in OverallAnswers : AnalyzeOverall(answer)
    \/ AfterAnalysis
    \/ \E answer \in SummaryAnswers : ReportSummary(answer)
    \/ \E answer \in DetailedAnswers : ReportDetailed(answer)
    \/ \E answer \in RecommendationAnswers : ReportRecommendations(answer)
    \/ \E answer \in SaveAnswers : FormatAndSave(answer)
    \/ \E e \in Uncaught : SearchRaises(e)
    \/ \E e \in Uncaught : AnalysisRaises(e)
    \/ \E e \in Uncaught : ReportRaises(e)

Spec == Init /\ [][Next]_vars

\* The search stage on its own, with a wider choice of provider answers and
\* ranking responses.  The provider has no article, one, three, or one more
\* than MAX_ARTICLES_PER_SEARCH.
CandidateCounts == {0, 1, 3, MAX_ARTICLES_PER_SEARCH + 1}
\* Articles as the provider also returns them: without a field, with a
\* field that is null, with a source that is null.
SparseArticles ==
    {Dict([k \in DOMAIN ProviderArticle("u2").f \ {"content"} |-> ProviderArticle("u2").f[k]]),
     Dict(("description" :> None) @@ ProviderArticle("u2").f),
     Dict(("source" :> Dict("name" :> None)) @@ ProviderArticle("u2").f),
     Dict(("source" :> None) @@ ProviderArticle("u2").f)}
SearchFetchAnswers ==
    {Raise("NewsAPIException")}
        \cup {Ret([i \in 1..n |-> ProviderArticle("u" \o ToString(i))]) : n \in CandidateCounts}
        \cup {Ret(<<ProviderArticle("u1"), article>>) : article \in SparseArticles}

\* The entry at position i of a ranking response.  Its explanation carries
\* the position, so that a returned article tells the entry it came from.
ExplanationAt(i) == [t |-> "str", s |-> "why", pos |-> i]
EntryAt(i, kind) ==
    LET entry(id, score) ==
            Dict(("id" :> id) @@ ("relevance_score" :> Num(score))
                 @@ ("explanation" :> ExplanationAt(i)))
    IN  CASE kind = "0 low"   -> entry(Num(0), 0)
          [] kind = "0 high"  -> entry(Num(0), 1)
          [] kind = "2 high"  -> entry(Num(2), 1)
          [] kind = "5"       -> entry(Num(5), 1)
          [] kind = "-1"      -> entry(Num(0 - 1), 1)
          [] kind = "word"    -> entry(Str("x"), 1)
          [] kind = "null"    -> entry(None, 0)
          [] kind = "missing" -> Without(entry(None, 1), {"id"})
EntryKinds == {"0 low", "0 high", "2 high", "5", "-1", "word", "null", "missing"}

\* Responses of up to MaxRanked entries for three candidates and of up to
\* two entries otherwise, each entry of any kind; and the responses that are
\* no ranking, rank nothing, or hold more entries than
\* MAX_ARTICLES_PER_SEARCH.
MaxRanked == 4
Longest(articles) == IF Len(articles) = 3 THEN MaxRanked ELSE 2
RankedAnswer(kinds) ==
    Ret(Obj(Ranking([i \in DOMAIN kinds |-> EntryAt(i, kinds[i])])))
OtherRankAnswers ==
    {Transport, Ret(Prose), Ret(T(<<"[", "]">>)), Ret(T(<<"{}">>)),
     RankedAnswer([i \in 1..(MAX_ARTICLES_PER_SEARCH + 1) |-> "0 high"])}

InitSearch ==
    /\ ParseIdle
    /\ ToolIdle
    /\ VerifyIdle
    /\ c_pc = "idle"
    /\ c_topic = Str("Artificial Intelligence Ethics")
    /\ c_time_range = TimeRange
    /\ c_trace = <<>>
    /\ c_log = <<>>
    /\ c_articles = <<>>
    /\ c_files = 0
    /\ c_ret = None
    /\ s_pc = "idle"
    /\ s_raw = <<>>
    /\ s_out = <<>>
    /\ a_pc = "idle"
    /\ a_idx = 0
    /\ a_results = EmptyResults
    /\ r_pc = "idle"
    /\ r_data = None
    /\ r_report = None
    /\ r_prompts = <<>>

NextSearch ==
    \/ Start
    \/ \E answer \in SearchFetchAnswers : SearchFetch(answer)
    \/ \E answer \in OtherRankAnswers : SearchRank(answer)
    \/ /\ s_pc = "rank"
       /\ \E n \in 0..Longest(s_raw) : \E kinds \in [1..n -> EntryKinds] :
             SearchRank(RankedAnswer(kinds))

SpecSearch == InitSearch /\ [][NextSearch]_vars

\* The report stage with a wider choice of responses: the run has one
\* article, and the overall analysis call and the three calls of the report
\* agent may also answer with JSON wrapped in a code fence, with JSON of
\* another type, or with prose.
Fenced(text) == T(<<"FENCE", "json", "\n">>) \o text \o T(<<"\n", "FENCE">>)
ReportAnswers(site) ==
    CASE site = "overall" ->
            OverallAnswers \cup {Ret(Fenced(Obj(GoodOverall)))}
      [] site = "summary" ->
            SummaryAnswers \cup {Ret(Fenced(Obj(ExecutiveSummary("findings")))),
                                 Ret(T(<<"[", "]">>))}
      [] site = "detailed" ->
            DetailedAnswers \cup {Ret(Fenced(Obj(GoodDetailed)))}
      [] site = "recommendations" ->
            RecommendationAnswers
                \cup {Ret(Prose), Ret(T(<<"1">>)), Ret(T(<<"{}">>)),
                      Ret(Fenced(T(<<"[">>) \o Obj(GoodRecommendation) \o T(<<"]">>)))}

InitReport == Init /\ c_time_range = TimeRange

NextReport ==
    \/ Start
    \/ SearchFetch(Ret(<<ProviderArticle("u1")>>))
    \/ SearchRank(Transport)
    \/ AfterSearch
    \/ AnalyzeArticle
    \/ \E answer \in ReportAnswers("overall") : AnalyzeOverall(answer)
    \/ AfterAnalysis
    \/ \E answer \in ReportAnswers("summary") : ReportSummary(answer)
    \/ \E answer \in ReportAnswers("detailed") : ReportDetailed(answer)
    \/ \E answer \in ReportAnswers("recommendations") : ReportRecommendations(answer)
    \/ \E e \in Uncaught : ReportRaises(e)
    \/ \E answer \in SaveAnswers : FormatAndSave(answer)

SpecReport == InitReport /\ [][NextReport]_vars

InitParse ==
    /\ ToolIdle
    /\ p_pc = "start"
    /\ p_text \in Texts
    /\ p_default \in Defaults
    /\ p_result = NotCalled
    /\ VerifyIdle
    /\ PipeIdle

NextParse == ParseCall

SpecParse == InitParse /\ [][NextParse]_vars

InitVerify ==
    /\ ParseIdle
    /\ ToolIdle
    /\ PipeIdle
    /\ v_pc = "idle"
    /\ v_articles \in ArticleLists
    /\ v_task = <<>>
    /\ v_sem = 0
    /\ v_waiters = <<>>
    /\ v_results = <<>>
    /\ v_pbar = 0
    /\ v_out = <<>>
    /\ v_failed = <<>>

NextVerify ==
    \/ VerifyStart
    \/ \E i \in Tasks : TaskStart(i)
    \/ \E i \in Tasks : TaskWake(i)
    \/ \E i \in Tasks : \E answer \in VerifyAnswers : TaskFinish(i, answer)
    \/ VerifyReturn

SpecVerify == InitVerify /\ [][NextVerify]_vars

\* The event loop runs every task that can run, and every LLM call ends.
SpecVerifyFair == SpecVerify /\ WF_vars(NextVerify)

---------------------------------------------------------------------------
(* BaseAgent (agents/base_agent.py): the temperature of a request.         *)
(* Temperatures are written in tenths: 3 stands for 0.3.                   *)

\* config.TEMPERATURE_SETTINGS.
TEMPERATURE_SETTINGS ==
    [search |-> 3, analysis |-> 4, fact_check |-> 2, report |-> 5]

\* The roles the agents are constructed with, and one the table lacks.
Roles == DOMAIN TEMPERATURE_SETTINGS \cup {"editor"}

\* The temperatures a caller passes: none, or 0.0 to 2.0.
MaxTemperature == 20
Temperatures == {None} \cup {Num(n) : n \in 0..MaxTemperature}

\* BaseAgent.__init__: self.temperature is the role's entry of the table,
\* 0.7 for a role the table lacks.
BaseAgentInit(role) ==
    /\ t_pc = "new"
    /\ t_pc' = "ready"
    /\ t_role' = Str(role)
    /\ t_default' = IF role \in DOMAIN TEMPERATURE_SETTINGS
                    THEN Num(TEMPERATURE_SETTINGS[role]) ELSE Num(7)
    /\ UNCHANGED <<t_given, t_sent>>
    /\ UNCHANGED <<parseVars, verifyVars, pipeVars, mergeVars, pushVars>>

\* BaseAgent._call_openai: the request carries
\* `temperature or self.temperature`; the text of the response is returned,
\* an exception of the client is raised again.
call_openai(temperature) ==
    /\ t_pc = "ready"
    /\ t_pc' = "called"
    /\ t_given' = temperature
    /\ t_sent' = IF Truthy(temperature) THEN temperature ELSE t_default
    /\ UNCHANGED <<t_role, t_default>>
    /\ UNCHANGED <<parseVars, verifyVars, pipeVars, mergeVars, pushVars>>

InitTemperature ==
    /\ ParseIdle
    /\ VerifyIdle
    /\ PipeIdle
    /\ MergeIdle
    /\ PushIdle
    /\ t_pc = "new"
    /\ t_role = None
    /\ t_default = None
    /\ t_given = None
    /\ t_sent = None

NextTemperature ==
    \/ \E role \in Roles : BaseAgentInit(role)
    \/ \E temperature \in Temperatures : call_openai(temperature)

SpecTemperature == InitTemperature /\ [][NextTemperature]_vars

---------------------------------------------------------------------------
(* GitMergeBot (github_activity_bot/git_merge_bot.py)                      *)
(* A git command ends in one of three ways: "ok", "failed" (a non-zero     *)
(* exit, CalledProcessError) or "oserror" (subprocess.run itself raises,   *)
(* which the step methods do not catch).                                   *)

GitOutcomes == {"ok", "failed", "oserror"}
Step(name, outcome) == [step |-> name, outcome |-> outcome]

Branches == {Str("main"), Str("develop"), Str("feature")}
feature_branch == Str("feature")
MergeArgs == [target_branch : {Str("main"), Str("develop")}, cleanup_branch : BOOLEAN]

\* The except branch of execute_merge_workflow: switch_branch(original),
\* whatever it does, and return False.
MergeExcept(log, rollback) ==
    /\ m_log' = Append(log, Step("rollback", rollback))
    /\ m_branch' = IF rollback = "ok" THEN m_original ELSE m_branch
    /\ m_ret' = Bool(FALSE)
    /\ m_pc' = "returned"

\* `if not self.<step>(...): return False` inside the try: the next step
\* when the command succeeded, False when it failed, the except branch when
\* it raised.
MergeStep(name, outcome, rollback, next) ==
    /\ IF outcome = "oserror"
       THEN MergeExcept(Append(m_log, Step(name, outcome)), rollback)
       ELSE /\ m_log' = Append(m_log, Step(name, outcome))
            /\ m_pc' = IF outcome = "ok" THEN next ELSE "returned"
            /\ m_ret' = IF outcome = "ok" THEN m_ret ELSE Bool(FALSE)
            /\ m_branch' = IF outcome = "ok" /\ name = "switch"
                           THEN m_args.target_branch ELSE m_branch
    /\ UNCHANGED <<m_args, m_original>>
    /\ UNCHANGED <<parseVars, verifyVars, pipeVars, tempVars, pushVars>>

\* execute_merge_workflow up to the try: check_git_repo, get_current_branch
\* (both outside the try: what they raise leaves the workflow) and
\* branch_exists_local for the feature branch.
MergeBegin(repo, current, exists, rollback) ==
    /\ m_pc = "idle"
    /\ IF repo # "ok"
       THEN /\ m_log' = <<Step("check_repo", repo)>>
            /\ m_pc' = IF repo = "failed" THEN "returned" ELSE "raised"
            /\ m_ret' = IF repo = "failed" THEN Bool(FALSE) ELSE m_ret
            /\ UNCHANGED <<m_original, m_branch>>
       ELSE IF current # "ok"
       THEN /\ m_log' = <<Step("check_repo", repo), Step("current_branch", current)>>
            /\ m_pc' = "raised"
            /\ UNCHANGED <<m_original, m_branch, m_ret>>
       ELSE LET log == <<Step("check_repo", repo), Step("current_branch", current),
                         Step("exists", exists)>>
            IN  /\ m_original' = m_branch
                /\ IF exists = "oserror"
                   THEN /\ m_log' = Append(log, Step("rollback", rollback))
                        /\ m_ret' = Bool(FALSE)
                        /\ m_pc' = "returned"
                   ELSE /\ m_log' = log
                        /\ m_pc' = IF exists = "ok" THEN "switch" ELSE "returned"
                        /\ m_ret' = IF exists = "ok" THEN m_ret ELSE Bool(FALSE)
                /\ UNCHANGED m_branch
    /\ UNCHANGED m_args
    /\ UNCHANGED <<parseVars, verifyVars, pipeVars, tempVars, pushVars>>

\* Switch to the target branch.
MergeSwitch(outcome, rollback) ==
    m_pc = "switch" /\ MergeStep("switch", outcome, rollback, "pull")

\* A variant that goes on to merge when the pull failed.
MergePull_continues(outcome, rollback) ==
    /\ m_pc = "pull"
    /\ IF outcome = "failed"
       THEN /\ m_log' = Append(m_log, Step("pull", outcome))
            /\ m_pc' = "merge"
            /\ UNCHANGED <<m_args, m_original, m_branch, m_ret>>
            /\ UNCHANGED <<parseVars, verifyVars, pipeVars, tempVars, pushVars>>
       ELSE MergeStep("pull", outcome, rollback, "merge")

\* Pull the target branch from the remote.
MergePull(outcome, rollback) ==
    m_pc = "pull" /\ MergeStep("pull", outcome, rollback, "merge")

\* Merge the feature branch into the current branch.
MergeMerge(outcome, rollback) ==
    m_pc = "merge" /\ MergeStep("merge", outcome, rollback, "push")

\* Push the merged target branch.
MergePush(outcome, rollback) ==
    m_pc = "push" /\ MergeStep("push", outcome, rollback, "cleanup")

\* After the push: delete_branch when cleanup_branch is set (its result is
\* not looked at; the remote branch is deleted whether or not the local one
\* was), and return True.
MergeCleanup(local, remote, rollback) ==
    /\ m_pc = "cleanup"
    /\ IF ~m_args.cleanup_branch
       THEN /\ m_ret' = Bool(TRUE)
            /\ m_pc' = "returned"
            /\ UNCHANGED <<m_log, m_branch>>
       ELSE IF local = "oserror"
       THEN MergeExcept(Append(m_log, Step("delete_local", local)), rollback)
       ELSE IF remote = "oserror"
       THEN MergeExcept(m_log \o <<Step("delete_local", local),
                                   Step("delete_remote", remote)>>, rollback)
       ELSE /\ m_log' = m_log \o <<Step("delete_local", local),
                                   Step("delete_remote", remote)>>
            /\ m_ret' = Bool(TRUE)
            /\ m_pc' = "returned"
            /\ UNCHANGED m_branch
    /\ UNCHANGED <<m_args, m_original>>
    /\ UNCHANGED <<parseVars, verifyVars, pipeVars, tempVars, pushVars>>

InitMerge ==
    /\ ParseIdle
    /\ VerifyIdle
    /\ PipeIdle
    /\ TempIdle
    /\ PushIdle
    /\ m_pc = "idle"
    /\ m_args \in MergeArgs
    /\ m_original = None
    /\ m_branch \in Branches
    /\ m_log = <<>>
    /\ m_ret = None

NextMerge ==
    \/ \E repo, current, exists, rollback \in GitOutcomes :
          MergeBegin(repo, current, exists, rollback)
    \/ \E outcome, rollback \in GitOutcomes : MergeSwitch(outcome, rollback)
    \/ \E outcome, rollback \in GitOutcomes : MergePull(outcome, rollback)
    \/ \E outcome, rollback \in GitOutcomes : MergeMerge(outcome, rollback)
    \/ \E outcome, rollback \in GitOutcomes : MergePush(outcome, rollback)
    \/ \E local, remote, rollback \in GitOutcomes : MergeCleanup(local, remote, rollback)

SpecMerge == InitMerge /\ [][NextMerge]_vars

---------------------------------------------------------------------------
(* GitPushBot (github_activity_bot/git_push_bot.py)                        *)

PushConfigs == [create_branch_if_missing : BOOLEAN, pull_before_push : BOOLEAN]

\* The try block of execute_git_workflow after the commands `entries`: on
\* to the step `next`, or `return False` (also from the except branch).
PushStep(entries, goes_on, next) ==
    /\ g_log' = g_log \o entries
    /\ g_pc' = IF goes_on THEN next ELSE "returned"
    /\ g_ret' = IF goes_on THEN g_ret ELSE Bool(FALSE)
    /\ UNCHANGED g_config
    /\ UNCHANGED <<parseVars, verifyVars, pipeVars, tempVars, mergeVars>>

\* check_git_repo, outside the try (what it raises leaves the workflow),
\* and get_current_branch, inside it.
PushBegin(repo, current) ==
    /\ g_pc = "idle"
    /\ IF repo = "oserror"
       THEN /\ g_log' = <<Step("check_repo", repo)>>
            /\ g_pc' = "raised"
            /\ UNCHANGED <<g_config, g_ret>>
            /\ UNCHANGED <<parseVars, verifyVars, pipeVars, tempVars, mergeVars>>
       ELSE IF repo = "failed"
       THEN PushStep(<<Step("check_repo", repo)>>, FALSE, "branch")
       ELSE PushStep(<<Step("check_repo", repo), Step("current_branch", current)>>,
                     current = "ok", "branch")

\* The target branch: created when it is missing and
\* create_branch_if_missing is set, switched to when it exists.
PushBranch(exists, outcome) ==
    /\ g_pc = "branch"
    /\ IF exists = "oserror"
       THEN PushStep(<<Step("exists", exists)>>, FALSE, "pull")
       ELSE IF exists = "failed"
       THEN IF g_config.create_branch_if_missing
            THEN PushStep(<<Step("exists", exists), Step("create", outcome)>>,
                          outcome = "ok", "pull")
            ELSE PushStep(<<Step("exists", exists)>>, FALSE, "pull")
       ELSE PushStep(<<Step("exists", exists), Step("switch", outcome)>>,
                     outcome = "ok", "pull")

\* A variant that gives up when the pull failed.
PushPull_stops(on_remote, outcome) ==
    /\ g_pc = "pull"
    /\ IF ~g_config.pull_before_push
       THEN PushStep(<<>>, TRUE, "stage")
       ELSE IF on_remote = "oserror"
       THEN PushStep(<<Step("ls_remote", on_remote)>>, FALSE, "stage")
       ELSE IF on_remote = "failed"
       THEN PushStep(<<Step("ls_remote", on_remote)>>, TRUE, "stage")
       ELSE PushStep(<<Step("ls_remote", on_remote), Step("pull", outcome)>>,
                     outcome = "ok", "stage")

\* The pull, when pull_before_push is set: pull_latest skips the command
\* when the remote has no such branch; a pull that failed is only warned
\* about.
PushPull(on_remote, outcome) ==
    /\ g_pc = "pull"
    /\ IF ~g_config.pull_before_push
       THEN PushStep(<<>>, TRUE, "stage")
       ELSE IF on_remote = "oserror"
       THEN PushStep(<<Step("ls_remote", on_remote)>>, FALSE, "stage")
       ELSE IF on_remote = "failed"
       THEN PushStep(<<Step("ls_remote", on_remote)>>, TRUE, "stage")
       ELSE PushStep(<<Step("ls_remote", on_remote), Step("pull", outcome)>>,
                     outcome # "oserror", "stage")

\* stage_changes: git add (the resets that unstage the excluded patterns do
\* not check the exit code).
PushStage(outcome) ==
    /\ g_pc = "stage"
    /\ PushStep(<<Step("add", outcome)>>, outcome = "ok", "commit")

\* commit_changes: git status, then git commit.  A status of "ok" shows
\* changes; with "failed" it shows nothing (its exit code is not checked),
\* nothing is committed and True is returned.
PushCommit(status, outcome) ==
    /\ g_pc = "commit"
    /\ IF status = "oserror"
       THEN PushStep(<<Step("status", status)>>, FALSE, "push")
       ELSE IF status = "failed"
       THEN PushStep(<<Step("status", status)>>, TRUE, "push")
       ELSE PushStep(<<Step("status", status), Step("commit", outcome)>>,
                     outcome = "ok", "push")

\* The push, with -u when the remote has no such branch; True when it
\* succeeded.
PushPush(on_remote, outcome) ==
    /\ g_pc = "push"
    /\ IF on_remote = "oserror"
       THEN PushStep(<<Step("ls_remote", on_remote)>>, FALSE, "returned")
       ELSE /\ g_log' = g_log \o <<Step("ls_remote", on_remote), Step("push", outcome)>>
            /\ g_pc' = "returned"
            /\ g_ret' = Bool(outcome = "ok")
            /\ UNCHANGED g_config
            /\ UNCHANGED <<parseVars, verifyVars, pipeVars, tempVars, mergeVars>>

InitPush ==
    /\ ParseIdle
    /\ VerifyIdle
    /\ PipeIdle
    /\ TempIdle
    /\ MergeIdle
    /\ g_pc = "idle"
    /\ g_config \in PushConfigs
    /\ g_log = <<>>
    /\ g_ret = None

NextPush ==
    \/ \E repo, current \in GitOutcomes : PushBegin(repo, current)
    \/ \E exists, outcome \in GitOutcomes : PushBranch(exists, outcome)
    \/ \E on_remote, outcome \in GitOutcomes : PushPull(on_remote, outcome)
    \/ \E outcome \in GitOutcomes : PushStage(outcome)
    \/ \E status, outcome \in GitOutcomes : PushCommit(status, outcome)
    \/ \E on_remote, outcome \in GitOutcomes : PushPush(on_remote, outcome)

SpecPush == InitPush /\ [][NextPush]_vars

---------------------------------------------------------------------------
(* Claims                                                                  *)

\* What the run has logged at a call site.
LogAt(site) == SelectSeq(c_log, LAMBDA c : c.site = site)
Sites == {c_log[i].site : i \in DOMAIN c_log}
Terminal == {"done", "empty", "failed"}

\* C1: a run that completes went through Searching, Analyzing, Verifying and
\* Synthesizing in that order, and synthesis was handed the verification
\* results next to the articles and the analysis: the scores of one
\* verification per article reach its detailed analysis.
C1_FourStagesInOrder ==
    c_pc = "done" =>
        /\ c_trace = <<"Searching", "Analyzing", "Verifying", "Synthesizing">>
        /\ "fact_check_results" \in DOMAIN r_data.f
        /\ Len(fact_check_input(r_data).credibility_scores) = Len(c_articles)

\* C1 witness: a run completed through Searching, Analyzing and Synthesizing
\* alone, and its synthesis was handed no verification results.
C1_Witness ==
    /\ c_pc = "done"
    /\ c_trace = <<"Searching", "Analyzing", "Synthesizing">>
    /\ "fact_check_results" \notin DOMAIN r_data.f
    /\ fact_check_input(r_data).credibility_scores = <<>>

\* C2: once search has returned the empty list, research_topic ends at the
\* "No articles found" report: it returns that dict, and neither analysis nor
\* synthesis runs, no call follows the search's own and no file is written.
C2_EmptySearchShortCircuits ==
    (s_pc = "returned" /\ s_out = <<>>) =>
        /\ c_pc \in {"searching", "empty"}
        /\ c_pc = "empty" => c_ret = no_articles_report(c_topic)
        /\ a_pc = "idle" /\ r_pc = "idle"
        /\ c_trace = <<"Searching">>
        /\ Sites \subseteq {"newsapi"}
        /\ c_files = 0

\* C2 witness: the provider was asked and had no article, and research_topic
\* returned the "No articles found" report.
C2_Witness ==
    /\ c_pc = "empty"
    /\ c_log = <<Call("newsapi", 0, Ret(<<>>))>>
    /\ c_ret = no_articles_report(c_topic)

Errors == {"KeyError", "TypeError", "AttributeError", "OSError"} \cup Uncaught

\* C3: no exception leaves research_topic: every run that ends has returned
\* a dict, and a run that an exception ended (one a stage let through, one
\* of formatting, one of saving) returned the dict of the except branch with
\* the topic, a timestamp and the text of the exception.
C3_NeverPropagates ==
    /\ c_pc # "raised"
    /\ c_pc \in Terminal => IsDict(c_ret)
    /\ c_pc = "failed" => \E e \in Errors : c_ret = error_report(c_topic, e)

\* C3 witness: formatting raised KeyError on a report the synthesis
\* returned, and research_topic returned the error dict for it.
C3_Witness ==
    /\ c_pc = "failed"
    /\ r_pc = "returned"
    /\ format_report_markdown(r_report) = Raise("KeyError")
    /\ c_ret = error_report(c_topic, "KeyError")

\* A structurally valid Report: executive summary, detailed analysis, a list
\* of recommendations and a metadata record with the article count, the
\* timestamp and the topic.
ValidReport(r) ==
    /\ IsDict(r)
    /\ {"executive_summary", "detailed_analysis", "recommendations", "metadata"}
           \subseteq DOMAIN r.f
    /\ IsList(r.f["recommendations"])
    /\ IsDict(r.f["metadata"])
    /\ {"total_articles", "analysis_timestamp", "topic"} \subseteq DOMAIN r.f["metadata"].f

\* The synthesis of this run degraded: one of its calls, or process itself,
\* raised.
SynthesisDegraded ==
    \E i \in DOMAIN c_log :
        /\ c_log[i].site \in {"summary", "detailed", "recommendations", "report"}
        /\ c_log[i].answer.raised

\* C4: what a failed run returns (no articles, an exception, a degraded
\* synthesis) is a structurally valid Report.
C4_FailedRunReturnsValidReport ==
    (c_pc \in {"empty", "failed"} \/ (c_pc = "done" /\ SynthesisDegraded))
        => ValidReport(c_ret)

\* C4 witness: a run that found no article returned a dict without metadata.
C4_Witness ==
    /\ c_pc = "empty"
    /\ c_ret = no_articles_report(c_topic)
    /\ "metadata" \notin DOMAIN c_ret.f

\* C5: no stage starts on partial input.  While analysis runs or has run,
\* search has returned and analysis works on exactly the list it returned, at
\* most MAX_ARTICLES_PER_SEARCH articles; while synthesis runs or has run,
\* analysis has returned, with one turn taken for every article and the
\* overall analysis made, and synthesis holds exactly those results.
C5_StagesWaitForFullInput ==
    /\ a_pc # "idle" =>
          /\ s_pc = "returned"
          /\ c_articles = s_out
          /\ c_articles # <<>>
          /\ Len(c_articles) <= MAX_ARTICLES_PER_SEARCH
    /\ r_pc # "idle" =>
          /\ a_pc = "returned"
          /\ a_idx = Len(c_articles) + 1
          /\ Len(LogAt("analysis")) = Len(c_articles)
          /\ Len(LogAt("overall")) = 1
          /\ "overall_analysis" \in DOMAIN a_results
          /\ r_data = report_data(c_topic, c_articles, results_dict(a_results))

\* C5 witness: synthesis is under way on two articles and their analysis.
C5_Witness ==
    /\ r_pc = "detailed"
    /\ Len(c_articles) = 2
    /\ Len(LogAt("analysis")) = 2

\* The response text is malformed: cleaning rejects it, or what cleaning
\* leaves does not decode.
Malformed(text) ==
    LET cleaned == clean_json_response(text)
    IN  cleaned.raised \/ json_loads(cleaned.val).raised

C7_ArraysAligned ==
    a_pc \in {"overall", "returned"} =>
        /\ Len(a_results.summaries) = Len(c_articles)
        /\ Len(a_results.sentiment) = Len(c_articles)
        /\ Len(a_results.biases) = Len(c_articles)

\* C7 witness: the call for the only article answered an object with a
\* summary and nothing else; summaries holds two entries, sentiment and
\* biases one each.
C7_Witness ==
    /\ a_pc = "overall"
    /\ Len(c_articles) = 1
    /\ LogAt("analysis")[1].answer
         = Ret(Obj(Dict("summary" :> FullAnalysis(c_articles[1]).f["summary"])))
    /\ a_results.summaries = <<Get(c_articles[1], "url", None), Str("Analysis failed")>>
    /\ Len(a_results.sentiment) = 1
    /\ Len(a_results.biases) = 1

\* The analysis call failed: it raised, or its text does not decode.
AnalysisFailed(call) == call.answer.raised \/ Malformed(call.answer.val)

\* The analysis call gave a complete analysis of its article.
AnalysisComplete(call) == call.answer = Ret(Obj(FullAnalysis(c_articles[call.n])))

\* Every call of the synthesis and the save went well.
SynthesisWentWell ==
    /\ LogAt("summary") = <<Call("summary", 0, Ret(Obj(ExecutiveSummary("findings"))))>>
    /\ LogAt("detailed") = <<Call("detailed", 0, Ret(Obj(GoodDetailed)))>>
    /\ LogAt("recommendations")
         = <<Call("recommendations", 0,
                  Ret(T(<<"[">>) \o Obj(GoodRecommendation) \o T(<<"]">>)))>>
    /\ LogAt("report") = <<>>
    /\ \A i \in DOMAIN c_log : c_log[i].site = "save" => ~c_log[i].answer.raised

\* C8: a failed analysis call does not end the batch.  (a) No run ends on the
\* failure of an LLM call, and when the loop has ended every article has had
\* its one call, in order.  (b) When each call either failed or gave a
\* complete analysis, the arrays hold, at the position of each failed
\* article, the placeholders, and at every other position that article's own
\* results.  (c) A run with a failed analysis call whose synthesis and save
\* went well ends with the final report, for all N articles and with a
\* detailed analysis that is not empty.
C8_FailureKeepsBatch ==
    LET calls == LogAt("analysis")
        N == Len(c_articles)
    IN  /\ c_pc = "failed" => c_ret # error_report(c_topic, "TransportError")
        /\ a_pc \in {"overall", "returned"} =>
              /\ Len(calls) = N
              /\ \A i \in 1..N : calls[i].n = i
              /\ (\A i \in 1..N : AnalysisFailed(calls[i]) \/ AnalysisComplete(calls[i])) =>
                    /\ Len(a_results.summaries) = N
                    /\ Len(a_results.sentiment) = N
                    /\ Len(a_results.biases) = N
                    /\ \A i \in 1..N :
                          IF AnalysisFailed(calls[i])
                          THEN /\ a_results.summaries[i] = Str("Analysis failed")
                               /\ a_results.sentiment[i] = FailedSentiment
                               /\ a_results.biases[i] = FailedBias
                          ELSE LET own == FullAnalysis(c_articles[i]).f
                               IN  /\ a_results.summaries[i] = own["summary"]
                                   /\ a_results.sentiment[i] = own["sentiment"]
                                   /\ a_results.biases[i] = own["bias"]
        /\ (/\ c_pc \in Terminal
            /\ \E i \in 1..Len(calls) : AnalysisFailed(calls[i])
            /\ SynthesisWentWell) =>
              /\ c_pc = "done"
              /\ c_ret = r_report
              /\ Get(c_ret, "detailed_analysis", EmptyDict) = GoodDetailed
              /\ GoodDetailed # EmptyDict
              /\ Get(c_ret, "metadata", EmptyDict).f["total_articles"] = Num(N)

\* C8 witness: of two articles the call for the first raised and the call
\* for the second gave a complete analysis; the run ended with the final
\* report, the placeholder at position 1 and the second article's summary at
\* position 2.
C8_Witness ==
    /\ c_pc = "done"
    /\ Len(c_articles) = 2
    /\ LogAt("analysis")[1].answer = Transport
    /\ AnalysisComplete(LogAt("analysis")[2])
    /\ a_results.summaries
         = <<Str("Analysis failed"), FullAnalysis(c_articles[2]).f["summary"]>>
    /\ Get(c_ret, "detailed_analysis", EmptyDict) = GoodDetailed

\* The tasks inside their verification LLM call.
InCall == {i \in Tasks : v_pc = "gathering" /\ v_task[i] = "calling"}

\* C9: at every instant at most max_concurrent verification LLM calls are
\* in progress.
C9_AtMostKCalls == Cardinality(InCall) <= max_concurrent

\* C9 witness: max_concurrent calls are in progress while another task
\* waits for a slot.
C9_Witness ==
    /\ Cardinality(InCall) = max_concurrent
    /\ v_waiters # <<>>

\* C10: process returns only when every launched task has finished, and its
\* list then has one entry per input article: as many entries as articles,
\* every entry a finished task's result, no two entries for the same
\* article, every article referenced.
C10_AllResultsPresent ==
    v_pc = "returned" =>
        /\ \A i \in Tasks : v_task[i] = "done"
        /\ Len(v_out) = Len(v_articles)
        /\ \A i \in 1..Len(v_out) : v_out[i] # NoResult
        /\ \A i, j \in 1..Len(v_out) :
              i # j => v_out[i].article_data # v_out[j].article_data
        /\ {v_out[i].article_data : i \in 1..Len(v_out)}
              = {v_articles[i] : i \in 1..Len(v_articles)}

\* C10 witness: process has returned for four articles, one of whose calls
\* failed.
C10_Witness ==
    /\ v_pc = "returned"
    /\ Len(v_out) = 4
    /\ \E i \in 1..4 : v_out[i].verification_results = get_default_verification
    /\ \E i \in 1..4 : v_out[i].verification_results # get_default_verification

\* C11: a slot is released whenever a task ends, whatever its call did: the
\* slots held are as many as the tasks inside their call, and when process
\* has returned all max_concurrent slots are free and nobody waits.
C11_NoSlotLeak ==
    /\ v_pc = "gathering" => max_concurrent - v_sem = Cardinality(InCall)
    /\ v_pc = "returned" => v_sem = max_concurrent /\ v_waiters = <<>>

\* C11 witness: one task has ended in failure and given its slot back, one
\* task is inside its call and holds the only slot taken.
C11_Witness ==
    /\ v_pc = "gathering"
    /\ \E i \in Tasks : v_task[i] = "done" /\ v_failed[i]
    /\ Cardinality(InCall) = 1
    /\ v_sem = max_concurrent - 1

\* C12: a task whose verification failed holds the default verification for
\* its own article, and the end of a task, failed or not, changes no other
\* task: neither its state nor its result.
C12_FailureStaysLocal ==
    /\ [](\A i \in Tasks :
            (v_pc # "idle" /\ v_task[i] = "done" /\ v_failed[i]) =>
                v_results[i] = ProcessArticleResult(v_articles[i], get_default_verification))
    /\ [][\A i \in Tasks :
            (v_pc = "gathering" /\ v_task[i] = "calling" /\ v_task'[i] = "done") =>
                \A j \in Tasks \ {i} :
                    /\ v_task'[j] = v_task[j]
                    /\ v_results'[j] = v_results[j]
                    /\ v_failed'[j] = v_failed[j]]_vars

\* C12 witness: process returned for three articles; the second failed and
\* holds the default, the first and the third hold what their calls found.
C12_Witness ==
    /\ v_pc = "returned"
    /\ Len(v_out) = 3
    /\ v_failed = <<FALSE, TRUE, FALSE>>
    /\ v_out[2].verification_results = get_default_verification
    /\ v_out[1].verification_results = GoodVerification
    /\ v_out[3].verification_results = GoodVerification

\* The ranking response of this run, and the entries it holds when it
\* decodes to a ranking.
RankAnswer == LogAt("rank")[1].answer
ResponseEntries ==
    IF RankAnswer.raised \/ Malformed(RankAnswer.val) THEN <<>>
    ELSE LET parsed == parse_json_response(RankAnswer.val, EmptyDict).val
             entries == IF IsDict(parsed) THEN Get(parsed, "ranked_articles", EmptyList)
                        ELSE None
         IN  IF IsList(entries) THEN entries.items ELSE <<>>

\* The candidate a returned article is, and the position of the entry that
\* ranked it (0 for an article that no entry ranked).
Candidate(article) == Without(article, {"relevance_score", "ranking_explanation"})
FromEntry(article) ==
    IF "ranking_explanation" \in DOMAIN article.f
    THEN article.f["ranking_explanation"].pos ELSE 0
SearchReturnedRanked == s_pc = "returned" /\ LogAt("rank") # <<>>

\* The id of the entry is a number of the valid range 0..N-1.
ValidId(entry, N) ==
    /\ IsDict(entry) /\ "id" \in DOMAIN entry.f
    /\ entry.f["id"].t = "num"
    /\ 0 <= entry.f["id"].n /\ entry.f["id"].n < N

\* C13: no candidate appears twice in the list search returns.
C13_NoCandidateTwice ==
    SearchReturnedRanked =>
        \A p, q \in 1..Len(s_out) : p # q => Candidate(s_out[p]) # Candidate(s_out[q])

\* C13 witness: the response ranks ids 2, 0, 5, 0 over three candidates, and
\* the returned list holds the first candidate twice.
C13_Witness ==
    /\ SearchReturnedRanked
    /\ Len(s_raw) = 3
    /\ RankAnswer = RankedAnswer(<<"2 high", "0 high", "5", "0 low">>)
    /\ Len(s_out) = 3
    /\ Candidate(s_out[2]) = s_raw[1]
    /\ Candidate(s_out[3]) = s_raw[1]

\* C14: an entry whose id is outside 0..N-1, not a number or missing gives
\* no article, and every entry with a valid id is still returned with its
\* score (the responses here are shorter than MAX_ARTICLES_PER_SEARCH).
C14_BadIdSkippedAlone ==
    (SearchReturnedRanked /\ Len(ResponseEntries) < MAX_ARTICLES_PER_SEARCH) =>
        /\ \A p \in 1..Len(s_out) :
              FromEntry(s_out[p]) # 0 =>
                  ValidId(ResponseEntries[FromEntry(s_out[p])], Len(s_raw))
        /\ \A i \in 1..Len(ResponseEntries) :
              ValidId(ResponseEntries[i], Len(s_raw)) =>
                  \E p \in 1..Len(s_out) :
                      /\ FromEntry(s_out[p]) = i
                      /\ Candidate(s_out[p]) = s_raw[ResponseEntries[i].f["id"].n + 1]
                      /\ s_out[p].f["relevance_score"] = ResponseEntries[i].f["relevance_score"]

\* C14 witness: the only entry has id -1 and the last of three candidates is
\* returned for it.
C14_Witness ==
    /\ SearchReturnedRanked
    /\ Len(s_raw) = 3
    /\ RankAnswer = RankedAnswer(<<"-1">>)
    /\ Len(s_out) = 1
    /\ Candidate(s_out[1]) = s_raw[3]

\* C15: a list that the ranking produced is in descending order of
\* relevance_score, and of two articles with the same score the one whose
\* entry came first in the response comes first.
C15_SortedStable ==
    (SearchReturnedRanked /\ s_out # <<>> /\ FromEntry(s_out[1]) # 0) =>
        /\ \A p \in 1..Len(s_out) : FromEntry(s_out[p]) # 0
        /\ \A p, q \in 1..Len(s_out) :
              p < q =>
                  /\ ScoreOf(s_out[p]) >= ScoreOf(s_out[q])
                  /\ ScoreOf(s_out[p]) = ScoreOf(s_out[q])
                        => FromEntry(s_out[p]) < FromEntry(s_out[q])

\* C15 witness: the response ranks id 0 low, then id 0 and id 2 high; the two
\* high entries come first, in the order of the response, the low one last.
C15_Witness ==
    /\ SearchReturnedRanked
    /\ Len(s_raw) = 3
    /\ RankAnswer = RankedAnswer(<<"0 low", "0 high", "2 high">>)
    /\ <<FromEntry(s_out[1]), FromEntry(s_out[2]), FromEntry(s_out[3])>> = <<2, 3, 1>>

\* The ranking gave nothing usable: the call failed, the text does not
\* decode, the decoded value holds no entries, or every entry has an id that
\* is too large, no number, or missing.
ZeroUsable ==
    \/ RankAnswer.raised
    \/ Malformed(RankAnswer.val)
    \/ \A i \in 1..Len(ResponseEntries) :
          LET entry == ResponseEntries[i]
          IN  \/ "id" \notin DOMAIN entry.f
              \/ entry.f["id"].t = "str"
              \/ entry.f["id"].t = "num" /\ entry.f["id"].n >= Len(s_raw)

C17_AtMostMaxCandidates ==
    s_pc = "returned" =>
        /\ Len(s_out) <= MAX_ARTICLES_PER_SEARCH
        /\ \A p \in 1..Len(s_out) :
              \E i \in 1..Len(s_raw) : Candidate(s_out[p]) = s_raw[i]

\* C17 witness: more candidates than MAX_ARTICLES_PER_SEARCH were fetched and
\* more entries than that were ranked; the list returned was cut to
\* MAX_ARTICLES_PER_SEARCH ranked articles.
C17_Witness ==
    /\ SearchReturnedRanked
    /\ Len(s_raw) > MAX_ARTICLES_PER_SEARCH
    /\ Len(ResponseEntries) > MAX_ARTICLES_PER_SEARCH
    /\ Len(s_out) = MAX_ARTICLES_PER_SEARCH
    /\ FromEntry(s_out[MAX_ARTICLES_PER_SEARCH]) = MAX_ARTICLES_PER_SEARCH

\* C18: when the provider call fails, search returns the empty list: nothing
\* is raised to research_topic and no ranking call is made.
C18_FetchFailsSoft ==
    (LogAt("newsapi") # <<>> /\ LogAt("newsapi")[1].answer.raised /\ s_pc # "fetch") =>
        /\ s_pc = "returned"
        /\ s_out = <<>>
        /\ LogAt("rank") = <<>>
        /\ c_pc = "searching"

\* C18 witness: the provider raised and search returned the empty list.
C18_Witness ==
    /\ c_log = <<Call("newsapi", 0, Raise("NewsAPIException"))>>
    /\ s_pc = "returned"
    /\ s_out = <<>>

\* C19: when research_topic is given no time_range, search has queried the
\* provider (with the window of the last 7 days) by the time it returns.
C19_DefaultWindowQueried ==
    (c_time_range = None /\ s_pc = "returned") => LogAt("newsapi") # <<>>

\* C19 witness: research_topic was called without a time_range and returned
\* the no-articles report; no call was made, to the provider or to the LLM.
C19_Witness ==
    /\ c_time_range = None
    /\ c_pc = "empty"
    /\ c_ret = no_articles_report(c_topic)
    /\ c_log = <<>>

\* C20: the report that ReportAgent.process returns is one that
\* _format_report_markdown renders without raising.
C20_SynthesisRenderable ==
    r_pc = "returned" => ~format_report_markdown(r_report).raised

\* C20 witness: the summary call answered with JSON that has key_trends only;
\* the report returned carries it as its executive_summary and rendering it
\* raises KeyError.
C20_Witness ==
    /\ r_pc = "returned"
    /\ LogAt("summary") # <<>>
    /\ LogAt("summary")[1].answer = Ret(Obj(Dict("key_trends" :> EmptyList)))
    /\ r_report.f["executive_summary"] = Dict("key_trends" :> EmptyList)
    /\ format_report_markdown(r_report).raised

\* The text a response leaves when the fence that wraps it is taken off
\* (an opening fence with or without the tag json, a closing fence) and the
\* rest is trimmed.
Unfenced(text) ==
    LET t == Strip(text)
        opened == IF Len(t) > 0 /\ t[1].u = "FENCE"
                  THEN IF Len(t) > 1 /\ t[2].u = "json"
                       THEN SubSeq(t, 3, Len(t)) ELSE SubSeq(t, 2, Len(t))
                  ELSE t
        closed == IF Len(opened) > 0 /\ opened[Len(opened)].u = "FENCE"
                  THEN SubSeq(opened, 1, Len(opened) - 1) ELSE opened
    IN  Strip(closed)

\* C30: when the unfenced, trimmed text begins with { or [ and decodes as
\* JSON, _parse_json_response returns the decoded value; otherwise it
\* returns the default when there is one and raises when there is none.
C30_ParseByUnfencedText ==
    p_pc = "done" =>
        LET core == Unfenced(p_text)
        IN  IF StartsWithBraceOrBracket(core) /\ ~json_loads(core).raised
            THEN p_result = json_loads(core)
            ELSE IF p_default # None THEN p_result = Ret(p_default)
            ELSE p_result.raised

\* C30 witness: an object wrapped in a fence without a language tag was
\* parsed without a default, and the parser raised ValueError.
C30_Witness ==
    /\ p_pc = "done"
    /\ p_text = T(<<"FENCE", "\n", "{}", "\n", "FENCE">>)
    /\ p_default = None
    /\ p_result = Raise("ValueError")

\* C26: the calls of the analysis loop are one for each article reached so
\* far, in the order of the articles: call i is for article i, none is made
\* twice, and the loop stands at an article only when every article before
\* it has had its call.
C26_OneCallPerArticleInOrder ==
    a_pc # "idle" =>
        LET calls == LogAt("analysis")
        IN  /\ Len(calls) = IF a_pc = "article" THEN a_idx - 1 ELSE Len(c_articles)
            /\ \A i \in 1..Len(calls) : calls[i].n = i

\* C26 witness: of two articles the first call failed and the second
\* answered; the loop has ended with two calls made.
C26_Witness ==
    /\ a_pc = "overall"
    /\ Len(c_articles) = 2
    /\ LogAt("analysis") = <<Call("analysis", 1, Transport),
                             Call("analysis", 2, Ret(Obj(FullAnalysis(c_articles[2]))))>>

\* The positions of c_log that hold a call of the site.
CallsAt(site) == {i \in DOMAIN c_log : c_log[i].site = site}
PerArticle == {"summaries", "key_points", "sentiment", "topics", "biases"}

\* C27: at most one overall call is made, after the call of every article;
\* it ends with process returning, with the default overall analysis when
\* the call failed or its text is malformed; the overall step leaves the
\* five per-article lists as they were.
C27_OneOverallCallAfterAll ==
    /\ [](/\ Cardinality(CallsAt("overall")) <= 1
          /\ a_pc = "returned" <=> CallsAt("overall") # {}
          /\ \A i \in CallsAt("overall") :
                /\ Cardinality({j \in CallsAt("analysis") : j < i}) = Len(c_articles)
                /\ \A j \in CallsAt("analysis") : j < i
                /\ (c_log[i].answer.raised \/ Malformed(c_log[i].answer.val))
                      => a_results.overall_analysis = get_default_overall_analysis)
    /\ [][a_pc = "overall" /\ a_pc' = "returned"
              => \A k \in PerArticle : a_results'[k] = a_results[k]]_vars

\* C27 witness: two articles were analysed, the overall call failed and
\* process returned the default overall analysis with both summaries.
C27_Witness ==
    /\ a_pc = "returned"
    /\ Len(c_articles) = 2
    /\ LogAt("overall") = <<Call("overall", 0, Transport)>>
    /\ a_results.overall_analysis = get_default_overall_analysis
    /\ Len(a_results.summaries) = 2

\* The answer of the provider in this run, and the fields of a Document.
ProviderAnswer == LogAt("newsapi")[1].answer
DocumentFields == {"title", "description", "url", "source", "publishedAt", "content"}

\* C24: when the provider answered with articles, the candidate list holds a
\* Document for each of them, and every Document has all six fields with a
\* value that is not null, the name of the source included.
C24_EveryFieldPresent ==
    (s_pc \in {"rank", "returned"} /\ LogAt("newsapi") # <<>> /\ ~ProviderAnswer.raised) =>
        /\ Len(s_raw) = Len(ProviderAnswer.val)
        /\ \A i \in 1..Len(s_raw) :
              /\ DOMAIN s_raw[i].f = DocumentFields
              /\ \A k \in DocumentFields : s_raw[i].f[k] # None
              /\ IsDict(s_raw[i].f["source"])
              /\ Get(s_raw[i].f["source"], "name", None) # None

\* C24 witness: the provider's second article has a null description, and
\* the second Document of the candidate list has a null description.
C24_Witness ==
    /\ s_pc = "rank"
    /\ ProviderAnswer = Ret(<<ProviderArticle("u1"),
                              Dict(("description" :> None) @@ ProviderArticle("u2").f)>>)
    /\ Len(s_raw) = 2
    /\ s_raw[2].f["description"] = None

\* C25: when search has returned after ranking, the candidate list is what
\* _fetch_articles made of the provider's answer: no candidate has gained or
\* changed a field.
C25_CandidatesUntouched ==
    SearchReturnedRanked =>
        /\ s_raw = fetch_articles(Query, ProviderAnswer)
        /\ \A i \in 1..Len(s_raw) : DOMAIN s_raw[i].f = DocumentFields

\* C25 witness: the first of three candidates was ranked twice, both copies
\* were returned with their scores, and the candidate has its six fields.
C25_Witness ==
    /\ SearchReturnedRanked
    /\ Len(s_raw) = 3
    /\ RankAnswer = RankedAnswer(<<"0 high", "0 low">>)
    /\ Len(s_out) = 2
    /\ s_out[1].f["relevance_score"] = Num(1)
    /\ s_out[2].f["relevance_score"] = Num(0)
    /\ s_raw[1] = processed_article(ProviderArticle("u1"))

\* The three LLM calls of the report agent, the answer a call of this run
\* got, and whether that answer failed at its site (the call raised or
\* json.loads rejected the text).
ReportSites == <<"summary", "detailed", "recommendations">>
AnswerAt(site) == LogAt(site)[1].answer
FailedAt(site) == AnswerAt(site).raised \/ json_loads(AnswerAt(site).val).raised

\* C21 as stated: when a call of one of the three steps raised, the report
\* that process returns is the failure skeleton.
C21_StepExceptionGivesSkeleton ==
    (r_pc = "returned"
        /\ \E i \in 1..3 : LogAt(ReportSites[i]) # <<>> /\ AnswerAt(ReportSites[i]).raised)
        => r_report = failed_report

\* C21 amended: an exception of a statement of process itself makes process
\* return the failure skeleton ('Report generation failed', empty detailed
\* analysis, empty recommendations); nothing is raised to research_topic,
\* which fails only when saving fails.
C21_ProcessExceptionGivesSkeleton ==
    LogAt("report") # <<>> =>
        /\ r_pc = "returned"
        /\ r_report = failed_report
        /\ c_pc \in {"synthesizing", "done", "failed"}
        /\ c_pc = "failed" => LogAt("save") # <<>> /\ AnswerAt("save").raised
        /\ c_pc = "done" => c_ret = failed_report

\* C21 witness: a statement of process raised after the summary call had
\* answered well, and the run ended with the failure skeleton as its report.
C21_Witness ==
    /\ LogAt("report") # <<>>
    /\ LogAt("summary") = <<Call("summary", 0, Ret(Obj(ExecutiveSummary("findings"))))>>
    /\ c_pc = "done"
    /\ c_ret = failed_report

\* The values a prompt is built from.
PartsOf(prompt) == {prompt[k] : k \in DOMAIN prompt}
CallOrder ==
    /\ \A i \in 1..3 : Cardinality(CallsAt(ReportSites[i])) <= 1
    /\ \A i \in 1..2 : \A p \in CallsAt(ReportSites[i + 1]) :
          \E q \in CallsAt(ReportSites[i]) : q < p
    /\ Len(r_prompts) = CASE r_pc = "idle" -> 0
                          [] r_pc = "summary" -> 1
                          [] r_pc = "detailed" -> 2
                          [] r_pc = "recommendations" -> 3
                          [] r_pc = "returned" -> Len(r_prompts)
    /\ r_pc \in {"summary", "detailed", "recommendations"} =>
          Len(r_prompts) = 1 + Cardinality(UNION {CallsAt(ReportSites[i]) : i \in 1..3})

\* C22 as stated: the calls are made in the order summary, detailed
\* analysis, recommendations, each after the one before it ended; the
\* detailed analysis prompt is built from the executive summary, and the
\* recommendations prompt from the executive summary and the detailed
\* analysis.
C22_EachPromptFromPriorResult ==
    /\ CallOrder
    /\ r_pc = "detailed" => r_report \in PartsOf(r_prompts[2])
    /\ r_pc = "recommendations" =>
          /\ r_report.f["executive_summary"] \in PartsOf(r_prompts[3])
          /\ r_report.f["detailed_analysis"] \in PartsOf(r_prompts[3])

\* C22 amended: the calls are made in that order, each after the one before
\* it ended; the recommendations prompt is built from the executive summary
\* and the detailed analysis, while the detailed analysis prompt is built
\* from data alone (the analysis results and the fact checks), whatever the
\* executive summary call gave.
C22_OrderedAndRecommendationsFromPrior ==
    /\ CallOrder
    /\ r_pc = "detailed" =>
          /\ DOMAIN r_prompts[2] = {"Analysis Results", "Verified Claims",
                                    "Unverified Claims", "Credibility Scores"}
          /\ r_prompts[2]["Analysis Results"] = r_data.f["analysis"]
          /\ r_prompts[2]["Verified Claims"] = EmptyList
          /\ r_prompts[2]["Unverified Claims"] = EmptyList
          /\ r_prompts[2]["Credibility Scores"] = EmptyList
    /\ r_pc = "recommendations" =>
          /\ r_prompts[3]["Executive Summary"] = r_report.f["executive_summary"]
          /\ r_prompts[3]["Detailed Analysis"] = r_report.f["detailed_analysis"]

\* C22 witness: the summary and the detailed analysis answered well and the
\* third prompt holds both results.
C22_Witness ==
    /\ r_pc = "recommendations"
    /\ Len(r_prompts) = 3
    /\ r_prompts[3]["Executive Summary"] = ExecutiveSummary("findings")
    /\ r_prompts[3]["Detailed Analysis"] = GoodDetailed
    /\ ExecutiveSummary("findings") \notin PartsOf(r_prompts[2])

\* C23: at each call of the report agent, as at the overall analysis call,
\* a text that _parse_json_response accepts gives the value it decodes to.
C23_SameTextSameOutcome ==
    /\ (a_pc = "returned" /\ ~AnswerAt("overall").raised /\ ~Malformed(AnswerAt("overall").val))
          => a_results.overall_analysis
                = parse_json_response(AnswerAt("overall").val, None).val
    /\ (r_pc = "returned" /\ LogAt("report") = <<>>) =>
          \A i \in 1..3 :
              LET answer == AnswerAt(ReportSites[i])
                  field == r_report.f[CASE i = 1 -> "executive_summary"
                                        [] i = 2 -> "detailed_analysis"
                                        [] i = 3 -> "recommendations"]
              IN  (~answer.raised /\ ~Malformed(answer.val)
                      /\ (i = 3 => IsList(parse_json_response(answer.val, None).val)))
                      => field = parse_json_response(answer.val, None).val

\* C23 witness: the overall analysis call and the summary call both answered
\* with an object in a json code fence; the overall analysis is the object,
\* the executive summary is the default of a text that does not decode.
C23_Witness ==
    /\ r_pc = "returned"
    /\ LogAt("report") = <<>>
    /\ AnswerAt("overall") = Ret(Fenced(Obj(GoodOverall)))
    /\ a_results.overall_analysis = GoodOverall
    /\ AnswerAt("summary") = Ret(Fenced(Obj(ExecutiveSummary("findings"))))
    /\ r_report.f["executive_summary"] = ExecutiveSummary("")

\* C28: when process returns after its three steps, each of the three calls
\* was made once; a step whose call failed put its own default into its
\* field, and the detailed analysis and the recommendations are what their
\* own calls answered, whatever the steps before them did.
C28_StepFailureStaysInItsField ==
    (r_pc = "returned" /\ LogAt("report") = <<>>) =>
        /\ \A i \in 1..3 : Cardinality(CallsAt(ReportSites[i])) = 1
        /\ FailedAt("summary") =>
              r_report.f["executive_summary"]
                  \in {ExecutiveSummary("Summary generation failed"), ExecutiveSummary("")}
        /\ r_report.f["detailed_analysis"]
              = IF FailedAt("detailed") THEN DefaultDetailedAnalysis
                ELSE json_loads(AnswerAt("detailed").val).val
        /\ r_report.f["recommendations"]
              = IF FailedAt("recommendations")
                       \/ ~IsList(json_loads(AnswerAt("recommendations").val).val)
                THEN EmptyList
                ELSE json_loads(AnswerAt("recommendations").val).val
        /\ ~FailedAt("summary") =>
              r_report.f["executive_summary"] = json_loads(AnswerAt("summary").val).val
        /\ r_report.f["metadata"].f["topic"] = c_topic

\* C28 witness: the summary call failed, the other two answered well; the
\* report has the summary default, the detailed analysis and one
\* recommendation.
C28_Witness ==
    /\ r_pc = "returned"
    /\ LogAt("report") = <<>>
    /\ AnswerAt("summary") = Transport
    /\ r_report.f["executive_summary"] = ExecutiveSummary("Summary generation failed")
    /\ r_report.f["detailed_analysis"] = GoodDetailed
    /\ r_report.f["recommendations"] = List(<<GoodRecommendation>>)

\* C29: the recommendations of a report that process returned are a list,
\* and the empty list when the call failed, its text does not decode, or it
\* decodes to something that is no list.
C29_RecommendationsIsArray ==
    r_pc = "returned" =>
        /\ IsList(r_report.f["recommendations"])
        /\ (LogAt("recommendations") # <<>>
              /\ (FailedAt("recommendations")
                    \/ ~IsList(json_loads(AnswerAt("recommendations").val).val)))
              => r_report.f["recommendations"] = EmptyList

\* C29 witness: the recommendations call answered with one object, not an
\* array, and the report holds the empty list.
C29_Witness ==
    /\ r_pc = "returned"
    /\ LogAt("report") = <<>>
    /\ AnswerAt("recommendations") = Ret(Obj(GoodRecommendation))
    /\ r_report.f["recommendations"] = EmptyList

\* C32: every verification that process returns has a list of verified and
\* a list of unverified claims, a summary, and the three credibility scores
\* as numbers from 0 to 1.
C32_VerificationWellFormed ==
    v_pc = "returned" =>
        \A i \in 1..Len(v_out) :
            LET v == v_out[i].verification_results
            IN  /\ IsDict(v)
                /\ IsList(Get(v, "verified_claims", None))
                /\ IsList(Get(v, "unverified_claims", None))
                /\ "verification_summary" \in DOMAIN v.f
                /\ IsDict(Get(v, "credibility_assessment", None))
                /\ \A k \in ScoreKeys :
                      LET score == Get(v.f["credibility_assessment"], k, None)
                      IN  score.t = "num" /\ 0 <= score.n /\ score.n <= 1

\* C32 witness: the LLM answered the only article with a source credibility
\* of 5, and the verification returned has a source credibility of 5.
C32_Witness ==
    /\ v_pc = "returned"
    /\ Len(v_out) = 1
    /\ v_out[1].verification_results.f["credibility_assessment"].f["source_credibility"] = Num(5)

\* C34: a finished task holds the result for its own article, and the list
\* process returns is in the order of its argument: entry i is about
\* article i, in whatever order the tasks finished.
C34_SubmissionOrder ==
    /\ v_pc = "gathering" =>
          \A i \in Tasks : v_task[i] = "done" => v_results[i].article_data = v_articles[i]
    /\ v_pc = "returned" =>
          /\ Len(v_out) = Len(v_articles)
          /\ \A i \in 1..Len(v_out) :
                /\ v_out[i].article_data = v_articles[i]
                /\ v_out[i].article_url = Get(v_articles[i], "url", Str(""))

\* C34 witness: the second and the third task have finished while the first
\* is still inside its call.
C34_Witness ==
    /\ v_pc = "gathering"
    /\ Len(v_articles) = 3
    /\ v_task = <<"calling", "done", "done">>
    /\ v_results[2].article_data = v_articles[2]
    /\ v_results[3].article_data = v_articles[3]

\* C35: under fair scheduling process returns, with every task finished.
C35_VerifyTerminates ==
    <>(v_pc = "returned" /\ \A i \in Tasks : v_task[i] = "done")

\* C35 witness: process has returned for more articles than max_concurrent:
\* a task had to wait for a slot, and all slots are free again.
C35_Witness ==
    /\ v_pc = "returned"
    /\ Len(v_articles) > max_concurrent
    /\ v_pbar = Len(v_articles)
    /\ v_sem = max_concurrent
    /\ v_waiters = <<>>

\* C36: when _fetch_articles gave at least one candidate, search returns at
\* least one article and nothing reaches research_topic as an exception.
C36_NeverEmptiedByRanking ==
    (s_raw # <<>> /\ s_pc # "fetch") =>
        /\ s_pc = "returned" => s_out # <<>> /\ LogAt("rank") # <<>>
        /\ c_pc = "searching"

\* C36 witness: three candidates were fetched, the ranking call failed, and
\* search returned the three candidates.
C36_Witness ==
    /\ SearchReturnedRanked
    /\ Len(s_raw) = 3
    /\ RankAnswer = Transport
    /\ s_out = s_raw

\* C33: the report synthesis returns is not changed after it returned; it
\* is rendered and saved at most once, after synthesis returned; a run that ended with no articles, or failed before synthesis
\* returned, saved nothing; a run writes at most one file, and a run that
\* ends well returns the report it wrote.
C33_OneReportOneArtifact ==
    /\ [](/\ Len(LogAt("save")) <= 1
          /\ c_files <= 1
          /\ c_files = 1 <=> (LogAt("save") # <<>> /\ ~LogAt("save")[1].answer.raised)
          /\ LogAt("save") # <<>> =>
                /\ r_pc = "returned"
                /\ ~format_report_markdown(r_report).raised
                /\ c_log[Len(c_log)].site = "save"
                /\ c_pc \in {"done", "failed"}
          /\ (c_pc = "empty" \/ (c_pc = "failed" /\ r_pc # "returned")) =>
                LogAt("save") = <<>> /\ c_files = 0
          /\ c_pc = "done" => c_files = 1 /\ c_ret = r_report)
    /\ [][/\ r_pc = "returned" => (r_pc' = "returned" /\ r_report' = r_report)
          /\ c_files' # c_files =>
                (c_pc = "synthesizing" /\ r_pc = "returned" /\ c_pc' = "done")]_vars

\* C33 witness: synthesis returned its report for two articles, the report
\* was rendered and saved, and the run ended with one file and that report.
C33_Witness ==
    /\ c_pc = "done"
    /\ Len(c_articles) = 2
    /\ c_files = 1
    /\ LogAt("save") = <<Call("save", 0, Ret(Str("reports/topic_now.md")))>>
    /\ c_ret = r_report

\* C31: the request carries the temperature the caller gave whenever the
\* caller gave one, 0 included, and the role's default when the caller gave
\* none.
C31_PerCallTemperature ==
    t_pc = "called" =>
        t_sent = IF t_given # None THEN t_given ELSE t_default

\* C31 witness: the search agent, whose default is 0.3, was called with a
\* temperature of 0 and sent 0.3.
C31_Witness ==
    /\ t_pc = "called"
    /\ t_role = Str("search")
    /\ t_given = Num(0)
    /\ t_sent = Num(3)

\* The steps of the merge workflow that were run, in order, and whether the
\* step named was run with success.
WorkflowSteps == <<"switch", "pull", "merge", "push">>
MergeRan(name) == \E i \in 1..Len(m_log) : m_log[i].step = name
MergeOk(name) == \E i \in 1..Len(m_log) : m_log[i] = Step(name, "ok")
MergeDeleted == MergeRan("delete_local") \/ MergeRan("delete_remote")

\* C37: the steps run in the order switch, pull, merge, push, delete, each
\* at most once and only when every step before it succeeded; True is
\* returned only when switch, pull, merge and push all succeeded; the
\* feature branch is deleted only after a push that succeeded and only when
\* cleanup was asked for.
C37_MergeStepsInOrder ==
    /\ \A i, j \in 1..Len(m_log) : i < j => m_log[i].step # m_log[j].step
    /\ \A k \in 2..Len(WorkflowSteps) :
          MergeRan(WorkflowSteps[k]) =>
              \E i, j \in 1..Len(m_log) :
                  /\ i < j
                  /\ m_log[i] = Step(WorkflowSteps[k - 1], "ok")
                  /\ m_log[j].step = WorkflowSteps[k]
    /\ MergeDeleted =>
          /\ m_args.cleanup_branch
          /\ \A k \in 1..Len(WorkflowSteps) : MergeOk(WorkflowSteps[k])
          /\ \A i, j \in 1..Len(m_log) :
                (m_log[i].step = "push" /\ m_log[j].step = "delete_local") => i < j
    /\ m_ret = Bool(TRUE) =>
          /\ m_pc = "returned"
          /\ \A k \in 1..Len(WorkflowSteps) : MergeOk(WorkflowSteps[k])
          /\ m_args.cleanup_branch => MergeDeleted

\* C37 witness: with cleanup asked for, the five steps ran and True was
\* returned, although the local branch could not be deleted.
C37_Witness ==
    /\ m_pc = "returned"
    /\ m_ret = Bool(TRUE)
    /\ m_args.cleanup_branch
    /\ [i \in 1..Len(m_log) |-> m_log[i].step] =
           <<"check_repo", "current_branch", "exists", "switch", "pull", "merge",
             "push", "delete_local", "delete_remote">>
    /\ m_log[8].outcome = "failed"

\* C39: when False is returned after the switch to the target branch, the
\* repository is back on the branch it was on at the start.
C39_FailureRestoresBranch ==
    (m_pc = "returned" /\ m_ret = Bool(FALSE) /\ MergeOk("switch")) =>
        m_branch = m_original

\* C39 witness: started on the feature branch with target main, the switch
\* succeeded and the pull failed; False was returned with main checked out
\* and no attempt to switch back.
C39_Witness ==
    /\ m_pc = "returned"
    /\ m_ret = Bool(FALSE)
    /\ m_original = Str("feature")
    /\ m_args.target_branch = Str("main")
    /\ m_log[Len(m_log)] = Step("pull", "failed")
    /\ m_branch = Str("main")

\* The commands of the push workflow's steps, in the order of the steps,
\* and what the workflow has run.
PushOrder == <<{"create", "switch"}, {"pull"}, {"add"}, {"commit"}, {"push"}>>
PushRank(name) == CHOOSE k \in 1..Len(PushOrder) : name \in PushOrder[k]
PushCommands == {i \in 1..Len(g_log) : \E k \in 1..Len(PushOrder) : g_log[i].step \in PushOrder[k]}
PushRan(name) == \E i \in 1..Len(g_log) : g_log[i].step = name
PushDid(name, outcome) == \E i \in 1..Len(g_log) : g_log[i] = Step(name, outcome)

\* C38: the steps run in the order branch (create or switch), pull, stage,
\* commit, push; after a pull that failed the workflow goes on to stage;
\* when create, switch, stage or commit did not succeed, False is returned
\* and no push is attempted; True is returned only when the push succeeded;
\* the branch is created only when it is missing and
\* create_branch_if_missing is set.
C38_PushStepsInOrder ==
    /\ \A i, j \in PushCommands :
          i < j => PushRank(g_log[i].step) < PushRank(g_log[j].step)
    /\ (g_log # <<>> /\ g_log[Len(g_log)] = Step("pull", "failed")) =>
          g_pc = "stage" /\ g_ret = None
    /\ \A i \in 1..Len(g_log) :
          (g_log[i].step \in {"create", "switch", "add", "commit"}
              /\ g_log[i].outcome # "ok") =>
                  /\ i = Len(g_log)
                  /\ g_pc = "returned"
                  /\ g_ret = Bool(FALSE)
    /\ PushRan("push") =>
          /\ PushDid("create", "ok") \/ PushDid("switch", "ok")
          /\ PushDid("add", "ok")
    /\ g_ret = Bool(TRUE) => g_pc = "returned" /\ PushDid("push", "ok")
    /\ PushRan("create") =>
          g_config.create_branch_if_missing /\ PushDid("exists", "failed")

\* C38 witness: the missing branch was created, the pull failed, and the
\* workflow staged, committed, pushed and returned True.
C38_Witness ==
    /\ g_pc = "returned"
    /\ g_ret = Bool(TRUE)
    /\ PushDid("create", "ok")
    /\ PushDid("pull", "failed")
    /\ PushDid("add", "ok")
    /\ PushDid("commit", "ok")
    /\ PushDid("push", "ok")

=============================================================================
